---- MODULE Spec2Model ----
(***************************************************************************)
(* log-sm: the override token stack and the gating of the four emitters    *)
(* of createLogger (src/src/core.ts).                                      *)
(*                                                                         *)
(* One logger instance is modelled.  Its state is the closure state of     *)
(* createLogger: the RuntimeState record `_state` (here `state` and        *)
(* `tokens`), the per-override closures made by pushOverride (`overrides`: *)
(* the `disposed` flag, the timer and, for withLevel, the progress of fn), *)
(* and the JavaScript call stack of synchronously running withLevel        *)
(* callbacks (`frames`).  JavaScript is single-threaded: timer callbacks   *)
(* and promise reactions run only when the call stack is empty.            *)
(*                                                                         *)
(* Where several loggers matter (withTags wrappers, child loggers), the    *)
(* createLogger closures are kept in `loggers` and the ILogger objects     *)
(* handed to callers in `apis`; both stay empty while one logger is        *)
(* looked at on its own.                                                   *)
(***************************************************************************)
EXTENDS Integers, Sequences, FiniteSets, TLC

VARIABLES cfg, state, tokens, overrides, frames, last, loggers, apis

vars == <<cfg, state, tokens, overrides, frames, last, loggers, apis>>

(* ------------------------------ bounds --------------------------------- *)

\* Number of overrides (withLevel / withLevelTimed / debugForMs calls that
\* push a token) created during one run.
MaxOverrides == 2

(* ------------------------------ LogLevel -------------------------------- *)

NONE == 0
ERROR == 1
INFO == 2
DEBUG == 3

LogLevels == {NONE, ERROR, INFO, DEBUG}

\* JavaScript `undefined` for an optional LogLevel (Token.level, the result
\* of parseLogLevel).
UNDEFINED == -1

Max2(a, b) == IF a >= b THEN a ELSE b
Min2(a, b) == IF a <= b THEN a ELSE b

(* --------------------------- argument values ---------------------------- *)

\* The strings handed to `level` parameters in the model.
StrArgs == {"debug", "INFO", " error ", "off", "warn", "2", "7", ""}

\* String.prototype.trim on StrArgs.
TrimStr(s) == IF s = " error " THEN "error" ELSE s

\* String.prototype.toUpperCase on the trimmed StrArgs.
UpperStr(s) ==
    CASE s = "debug" -> "DEBUG"
      [] s = "error" -> "ERROR"
      [] s = "off"   -> "OFF"
      [] s = "warn"  -> "WARN"
      [] OTHER       -> s

\* Number(v) for a string of StrArgs; NaN is [finite |-> FALSE].
NumberOfStr(s) ==
    CASE s = "2" -> [finite |-> TRUE, val |-> 2]
      [] s = "7" -> [finite |-> TRUE, val |-> 7]
      [] OTHER   -> [finite |-> FALSE, val |-> 0]

\* Values of a `level` argument: undefined, a number (finite or not), a string.
LevelArgs ==
    {[kind |-> "undefined", num |-> 0, str |-> ""]}
    \cup {[kind |-> "number", num |-> n, str |-> ""] : n \in {-1, 0, 1, 2, 3, 4}}
    \cup {[kind |-> "nan", num |-> 0, str |-> ""]}
    \cup {[kind |-> "string", num |-> 0, str |-> s] : s \in StrArgs}

\* Values of an `ms` argument: finite numbers, and NaN / Infinity.
MsArgs ==
    {[finite |-> TRUE, val |-> v] : v \in {-5, 0, 25}}
    \cup {[finite |-> FALSE, val |-> v] : v \in {0, 1}}

\* Values of an optional boolean option.
OptBools == {"undefined", "true", "false"}

\* `v ?? d` for an optional boolean.
Coalesce(v, d) == IF v = "undefined" THEN d ELSE (v = "true")

(* ---------------------------- parseLogLevel ----------------------------- *)

ClampLevel(n) == Max2(0, Min2(3, n))

parseLogLevel(v) ==
    CASE v.kind = "undefined" -> UNDEFINED
      [] v.kind = "nan"       -> UNDEFINED
      [] v.kind = "number"    -> ClampLevel(v.num)
      [] v.kind = "string"    ->
            LET s == TrimStr(v.str)
                u == UpperStr(s)
                n == NumberOfStr(s)
            IN  IF s = "" THEN UNDEFINED
                ELSE CASE u \in {"NONE", "OFF"}  -> NONE
                       [] u \in {"ERROR", "ERR"} -> ERROR
                       [] u = "INFO"             -> INFO
                       [] u \in {"DEBUG", "DBG"} -> DEBUG
                       [] OTHER -> IF n.finite THEN ClampLevel(n.val)
                                   ELSE UNDEFINED

getLevelName(level) ==
    IF level = DEBUG THEN "debug"
    ELSE IF level = INFO THEN "info"
    ELSE IF level = ERROR THEN "error"
    ELSE "none"

(* ------------------------------- tokens --------------------------------- *)

\* Token.debugWindow when it is not set.
NoWindow == [set |-> FALSE, allowInfo |-> FALSE, includeStack |-> FALSE]

\* The Token objects of the model: `token` is the identity (the Symbol),
\* here the number of the override that made it.
LevelToken(id, lvl) == [token |-> id, level |-> lvl, debugWindow |-> NoWindow]

WindowToken(id, allow, stack) ==
    [token |-> id, level |-> UNDEFINED,
     debugWindow |-> [set |-> TRUE, allowInfo |-> allow, includeStack |-> stack]]

\* tokens.findIndex(o => o.token === id); 0 stands for -1 (1-based sequences).
FindIndex(toks, id) ==
    LET hits == {i \in 1..Len(toks) : toks[i].token = id}
    IN  IF hits = {} THEN 0 ELSE CHOOSE i \in hits : \A j \in hits : i <= j

\* tokens.splice(idx, 1)
Splice(toks, idx) ==
    [i \in 1..(Len(toks) - 1) |-> IF i < idx THEN toks[i] ELSE toks[i + 1]]

\* Removal by stack position instead of by identity: tokens.pop().
RemoveToken_Pop(toks, id) ==
    IF Len(toks) > 0 THEN SubSeq(toks, 1, Len(toks) - 1) ELSE toks

\* const idx = tokens.findIndex(...); if (idx >= 0) tokens.splice(idx, 1);
RemoveToken(toks, id) ==
    LET idx == FindIndex(toks, id)
    IN  IF idx > 0 THEN Splice(toks, idx) ELSE toks

(* ---------------------------- recomputeState ---------------------------- *)

\* The level scan run from the oldest token: first-pushed-wins.
ScanLevel_Oldest(toks, i) ==
    LET idx == {j \in 1..i : toks[j].level # UNDEFINED}
    IN  IF idx = {} THEN UNDEFINED
        ELSE toks[CHOOSE j \in idx : \A k \in idx : j <= k].level

\* for (i = tokens.length - 1; i >= 0; i--) if (t.level !== undefined) ...
RECURSIVE ScanLevel(_, _)
ScanLevel(toks, i) ==
    IF i = 0 THEN UNDEFINED
    ELSE IF toks[i].level # UNDEFINED THEN toks[i].level
    ELSE ScanLevel(toks, i - 1)

\* The window scan run from the oldest token: first-pushed-wins.
ScanWindow_Oldest(toks, i) ==
    LET idx == {j \in 1..i : toks[j].debugWindow.set}
    IN  IF idx = {} THEN [set |-> FALSE, allowInfo |-> FALSE, includeStack |-> FALSE]
        ELSE toks[CHOOSE j \in idx : \A k \in idx : j <= k].debugWindow

\* for (i = tokens.length - 1; i >= 0; i--) if (t.debugWindow !== undefined) ...
RECURSIVE ScanWindow(_, _)
ScanWindow(toks, i) ==
    IF i = 0 THEN NoWindow
    ELSE IF toks[i].debugWindow.set THEN toks[i].debugWindow
    ELSE ScanWindow(toks, i - 1)

\* Only the top of the stack is looked at: a level token on top hides a
\* debug window below it, and a debug window on top hides a level override.
recomputeState_TopOnly(st, toks) ==
    LET top == toks[Len(toks)]
        on  == Len(toks) > 0
    IN  [baseLevel |-> st.baseLevel,
         level |-> IF on /\ top.level # UNDEFINED THEN top.level ELSE st.baseLevel,
         inDebug |-> on /\ top.debugWindow.set,
         inDebugAllowInfo |-> on /\ top.debugWindow.set /\ top.debugWindow.allowInfo,
         inDebugIncludeStack |-> on /\ top.debugWindow.set /\ top.debugWindow.includeStack]

\* A recompute that falls back to the current level, not to the base level.
recomputeState_KeepsLevel(st, toks) ==
    LET lvl == ScanLevel(toks, Len(toks))
        w   == ScanWindow(toks, Len(toks))
    IN  [baseLevel |-> st.baseLevel,
         level |-> IF lvl # UNDEFINED THEN lvl ELSE st.level,
         inDebug |-> w.set,
         inDebugAllowInfo |-> w.set /\ w.allowInfo,
         inDebugIncludeStack |-> w.set /\ w.includeStack]

recomputeState(st, toks) ==
    LET lvl == ScanLevel(toks, Len(toks))
        w   == ScanWindow(toks, Len(toks))
    IN  [baseLevel |-> st.baseLevel,
         level |-> IF lvl # UNDEFINED THEN lvl ELSE st.baseLevel,
         inDebug |-> w.set,
         inDebugAllowInfo |-> w.set /\ w.allowInfo,
         inDebugIncludeStack |-> w.set /\ w.includeStack]

(* ------------------------------ emitters -------------------------------- *)

ErrorGate(st) == st.level >= ERROR
\* warn() let through by a debug window.
WarnGate_Window(st, warnLevel) == st.level >= warnLevel \/ st.inDebug
WarnGate(st, warnLevel) == st.level >= warnLevel
InfoGate(st) == st.level >= INFO \/ (st.inDebug /\ st.inDebugAllowInfo)
\* debug() bypassing the level only when the window allows info.
DebugGate_NeedsAllowInfo(st) ==
    st.level >= DEBUG \/ (st.inDebug /\ st.inDebugAllowInfo)
DebugGate(st) == st.level >= DEBUG \/ st.inDebug

\* What the last step did:
\*   op          the API call or callback ("none" right after construction)
\*   id          the override it pushed or ended (0 when none)
\*   forwarded   an emitter call reached its sink
\*   wasDisposed a disposer or timer callback found `disposed` already set
\*   threw       the call ended by throwing to its caller
\*   ms          the `ms` argument of a withLevelTimed / debugForMs call, as a
\*               set of at most one value
Step(op, id) ==
    [op |-> op, id |-> id, forwarded |-> FALSE, wasDisposed |-> FALSE,
     threw |-> FALSE, ms |-> {}]
Emitted(op, fwd) == [Step(op, 0) EXCEPT !.forwarded = fwd]
Thrown(op, id) == [Step(op, id) EXCEPT !.threw = TRUE]
Timed(op, id, ms) == [Step(op, id) EXCEPT !.ms = {ms}]
Ended(op, id, was) == [Step(op, id) EXCEPT !.wasDisposed = was]

(* ------------------------------ overrides ------------------------------- *)

\* The closure made by one pushOverride call, with the caller it serves:
\*   kind     "scoped" (withLevel), "timed" (withLevelTimed), "window" (debugForMs)
\*   disposed the closure's `disposed` flag
\*   timer    "none" | "pending" | "cleared" | "fired"   (entry.timer)
\*   fn       "none" | "running" | "pending" | "done"    (withLevel's fn)
\*   prevLevel, prevTokens   for withLevel, _state.level and the stack just
\*            before the call (kept until fn completes)
Override(kind, timer, fn) ==
    [kind |-> kind, disposed |-> FALSE, timer |-> timer, fn |-> fn,
     prevLevel |-> IF kind = "scoped" THEN state.level ELSE UNDEFINED,
     prevTokens |-> IF kind = "scoped" THEN tokens ELSE <<>>]

NextId == Len(overrides) + 1

OnStack(id) == FindIndex(tokens, id) > 0

\* A pushOverride that arms the timer without looking for setTimeout.
PushOverride_AlwaysTimer(kind, entry, msValid, fn) ==
    LET toks  == Append(tokens, entry)
        timer == IF msValid THEN "pending" ELSE "none"
    IN  /\ tokens' = toks
        /\ state' = recomputeState(state, toks)
        /\ overrides' = Append(overrides, Override(kind, timer, fn))

\* pushOverride(level, ms, debug) up to `return`: build the entry, push it,
\* recompute, and start the timer when ms is usable and setTimeout exists.
\* `entry` is the token built from the arguments (NewEntry).
PushOverride(kind, entry, msValid, fn) ==
    LET toks  == Append(tokens, entry)
        timer == IF msValid /\ cfg.setTimeout THEN "pending" ELSE "none"
    IN  /\ tokens' = toks
        /\ state' = recomputeState(state, toks)
        /\ overrides' = Append(overrides, Override(kind, timer, fn))

\* A level that does not parse treated like an omitted level.
NewEntry_UnparsedFallsThrough(id, level, allow, stack) ==
    IF level.kind # "undefined" /\ parseLogLevel(level) # UNDEFINED
    THEN LevelToken(id, parseLogLevel(level))
    ELSE WindowToken(id, Coalesce(allow, TRUE), Coalesce(stack, TRUE))

\* if (level !== undefined) entry.level = parseLogLevel(level) ?? NONE;
\* else entry.debugWindow = { allowInfo: debug?.allowInfo ?? true, ... }
NewEntry(id, level, allow, stack) ==
    IF level.kind # "undefined"
    THEN LevelToken(id, IF parseLogLevel(level) # UNDEFINED
                        THEN parseLogLevel(level) ELSE NONE)
    ELSE WindowToken(id, Coalesce(allow, TRUE), Coalesce(stack, TRUE))

\* A disposer that removes its token and does not call recomputeState().
Dispose_NoRecompute(id, fn) ==
    IF overrides[id].disposed
    THEN /\ overrides' = [overrides EXCEPT ![id].fn = fn]
         /\ UNCHANGED <<tokens, state>>
    ELSE /\ overrides' =
               [overrides EXCEPT
                  ![id].disposed = TRUE,
                  ![id].fn = fn,
                  ![id].timer = IF cfg.clearTimeout THEN "none" ELSE @,
                  ![id].prevLevel = UNDEFINED,
                  ![id].prevTokens = <<>>]
         /\ tokens' = RemoveToken(tokens, id)
         /\ UNCHANGED state

\* A disposer without the `disposed` guard that pops the top of the stack.
Dispose_Lifo(id, fn) ==
    LET toks == IF Len(tokens) > 0 THEN SubSeq(tokens, 1, Len(tokens) - 1) ELSE tokens
    IN  /\ overrides' =
              [overrides EXCEPT
                 ![id].disposed = TRUE,
                 ![id].fn = fn,
                 ![id].timer = IF cfg.clearTimeout THEN "none" ELSE @,
                 ![id].prevLevel = UNDEFINED,
                 ![id].prevTokens = <<>>]
        /\ tokens' = toks
        /\ state' = recomputeState(state, toks)

\* The disposer returned by pushOverride:
\*   if (disposed) return; disposed = true;
\*   if (entry.timer && ct) ct(entry.timer);
\*   findIndex / splice; recomputeState();
\* `fn` is the progress of withLevel's fn after the call.
Dispose(id, fn) ==
    IF overrides[id].disposed
    THEN /\ overrides' = [overrides EXCEPT ![id].fn = fn]
         /\ UNCHANGED <<tokens, state>>
    ELSE LET toks == RemoveToken(tokens, id)
         IN  /\ overrides' =
                   [overrides EXCEPT
                      ![id].disposed = TRUE,
                      ![id].fn = fn,
                      ![id].timer = IF cfg.clearTimeout THEN "none" ELSE @,
                      ![id].prevLevel = UNDEFINED,
                      ![id].prevTokens = <<>>]
             /\ tokens' = toks
             /\ state' = recomputeState(state, toks)

\* A timer callback that takes the top of the stack: tokens.pop().
Expire_Pop(id) ==
    IF overrides[id].disposed
    THEN /\ overrides' = [overrides EXCEPT ![id].timer = "none"]
         /\ UNCHANGED <<tokens, state>>
    ELSE LET toks == RemoveToken_Pop(tokens, id)
         IN  /\ overrides' = [overrides EXCEPT ![id].disposed = TRUE,
                                               ![id].timer = "none"]
             /\ tokens' = toks
             /\ state' = recomputeState(state, toks)

\* A timer callback that marks the override ended and leaves its token.
Expire_NoSplice(id) ==
    /\ overrides' = [overrides EXCEPT ![id].disposed = TRUE, ![id].timer = "none"]
    /\ UNCHANGED <<tokens, state>>

\* The setTimeout callback of pushOverride:
\*   if (disposed) return; disposed = true; findIndex / splice; recomputeState();
Expire(id) ==
    IF overrides[id].disposed
    THEN /\ overrides' = [overrides EXCEPT ![id].timer = "none"]
         /\ UNCHANGED <<tokens, state>>
    ELSE LET toks == RemoveToken(tokens, id)
         IN  /\ overrides' = [overrides EXCEPT ![id].disposed = TRUE,
                                               ![id].timer = "none"]
             /\ tokens' = toks
             /\ state' = recomputeState(state, toks)

\* The check with the comparison turned into `ms < 0`: zero is let through.
ValidMs_ZeroOk(ms) == ms.finite /\ ms.val >= 0

\* !Number.isFinite(ms) || ms <= 0 is false
ValidMs(ms) == ms.finite /\ ms.val > 0

\* The distinct (ms, token) outcomes of the arguments of the timed calls: a
\* call with an `ms` that is refused builds no token.
Undef == [kind |-> "undefined", num |-> 0, str |-> ""]
NoEntry == LevelToken(0, NONE)
WindowCalls ==
    {<<ms, IF ValidMs(ms) THEN NewEntry(0, Undef, allow, stack) ELSE NoEntry>> :
        ms \in MsArgs, allow \in OptBools, stack \in OptBools}
TimedCalls ==
    {<<ms, IF ValidMs(ms) THEN NewEntry(0, level, "undefined", "undefined")
           ELSE NoEntry>> :
        ms \in MsArgs, level \in LevelArgs}
ScopedCalls ==
    {NewEntry(0, level, "undefined", "undefined") : level \in LevelArgs}

(* ------------------------------- actions -------------------------------- *)

\* The capabilities of the runtime: no timers, setTimeout only, or both.
Runtimes ==
    {r \in [setTimeout : BOOLEAN, clearTimeout : BOOLEAN] :
        r.clearTimeout => r.setTimeout}

Init ==
    /\ \E w \in LogLevels, b \in LogLevels, r \in Runtimes :
          /\ cfg = [warnLevel |-> w, baseLevel |-> b,
                    setTimeout |-> r.setTimeout, clearTimeout |-> r.clearTimeout]
          /\ state = [baseLevel |-> b, level |-> b, inDebug |-> FALSE,
                      inDebugAllowInfo |-> FALSE, inDebugIncludeStack |-> FALSE]
    /\ tokens = <<>>
    /\ overrides = <<>>
    /\ frames = <<>>
    /\ last = Step("none", 0)
    /\ loggers = <<>>
    /\ apis = <<>>

\* api.error / api.warn / api.info / api.debug: the gate decides whether the
\* sink is called; nothing else is touched.
EmitError ==
    /\ last' = Emitted("error", ErrorGate(state))
    /\ UNCHANGED <<cfg, loggers, apis, state, tokens, overrides, frames>>

EmitWarn ==
    /\ last' = Emitted("warn", WarnGate(state, cfg.warnLevel))
    /\ UNCHANGED <<cfg, loggers, apis, state, tokens, overrides, frames>>

EmitInfo ==
    /\ last' = Emitted("info", InfoGate(state))
    /\ UNCHANGED <<cfg, loggers, apis, state, tokens, overrides, frames>>

EmitDebug ==
    /\ last' = Emitted("debug", DebugGate(state))
    /\ UNCHANGED <<cfg, loggers, apis, state, tokens, overrides, frames>>

\* api.debugForMs(ms, opts)
DebugForMs ==
    \E c \in WindowCalls :
       IF ~ValidMs(c[1])
       THEN /\ last' = [Thrown("debugForMs", 0) EXCEPT !.ms = {c[1]}]
            /\ UNCHANGED <<cfg, loggers, apis, state, tokens, overrides, frames>>
       ELSE /\ NextId <= MaxOverrides
            /\ PushOverride("window", [c[2] EXCEPT !.token = NextId], TRUE, "none")
            /\ last' = Timed("debugForMs", NextId, c[1])
            /\ UNCHANGED <<cfg, loggers, apis, frames>>

\* api.withLevelTimed(level, ms)
WithLevelTimed ==
    \E c \in TimedCalls :
       IF ~ValidMs(c[1])
       THEN /\ last' = [Thrown("withLevelTimed", 0) EXCEPT !.ms = {c[1]}]
            /\ UNCHANGED <<cfg, loggers, apis, state, tokens, overrides, frames>>
       ELSE /\ NextId <= MaxOverrides
            /\ PushOverride("timed", [c[2] EXCEPT !.token = NextId], TRUE, "none")
            /\ last' = Timed("withLevelTimed", NextId, c[1])
            /\ UNCHANGED <<cfg, loggers, apis, frames>>

\* api.withLevel(level, fn) up to the point where fn starts to run:
\* pushOverride(level), then fn(api) is on the call stack.
WithLevelCall ==
    \E e \in ScopedCalls :
       /\ NextId <= MaxOverrides
       /\ PushOverride("scoped", [e EXCEPT !.token = NextId], FALSE, "running")
       /\ frames' = Append(frames, NextId)
       /\ last' = Step("withLevel", NextId)
       /\ UNCHANGED <<cfg, loggers, apis, loggers, apis>>

Top == frames[Len(frames)]
Pop == SubSeq(frames, 1, Len(frames) - 1)

\* fn returned a value that is not thenable: dispose(); return r.
FnReturn ==
    /\ frames # <<>>
    /\ Dispose(Top, "done")
    /\ frames' = Pop
    /\ last' = Step("return", Top)
    /\ UNCHANGED <<cfg, loggers, apis, loggers, apis>>

\* fn threw: catch (e) { dispose(); throw e; }
FnThrow ==
    /\ frames # <<>>
    /\ Dispose(Top, "done")
    /\ frames' = Pop
    /\ last' = Thrown("throw", Top)
    /\ UNCHANGED <<cfg, loggers, apis, loggers, apis>>

\* Fire-and-forget: the token is retired as soon as fn has returned its
\* awaitable, not when the awaitable settles.
FnAwait_DisposeNow ==
    /\ frames # <<>>
    /\ Dispose(frames[Len(frames)], "pending")
    /\ frames' = SubSeq(frames, 1, Len(frames) - 1)
    /\ last' = Step("await", frames[Len(frames)])
    /\ UNCHANGED <<cfg, loggers, apis, loggers, apis>>

\* fn returned a thenable: return Promise.resolve(r).finally(dispose).
FnAwait ==
    /\ frames # <<>>
    /\ overrides' = [overrides EXCEPT ![Top].fn = "pending"]
    /\ frames' = Pop
    /\ last' = Step("await", Top)
    /\ UNCHANGED <<cfg, loggers, apis, state, tokens>>

\* The awaitable fulfilled: the finally reaction runs dispose.
SettleFulfilled(id) ==
    /\ frames = <<>>
    /\ overrides[id].fn = "pending"
    /\ Dispose(id, "done")
    /\ last' = Step("fulfilled", id)
    /\ UNCHANGED <<cfg, loggers, apis, frames>>

\* The awaitable rejected: the finally reaction runs dispose.
SettleRejected(id) ==
    /\ frames = <<>>
    /\ overrides[id].fn = "pending"
    /\ Dispose(id, "done")
    /\ last' = Thrown("rejected", id)
    /\ UNCHANGED <<cfg, loggers, apis, frames>>

\* The disposer returned by withLevelTimed / debugForMs, called by its holder.
DisposerCall(id) ==
    /\ overrides[id].kind \in {"timed", "window"}
    /\ Dispose(id, "none")
    /\ last' = Ended("dispose", id, overrides[id].disposed)
    /\ UNCHANGED <<cfg, loggers, apis, frames>>

\* The timer of an override comes due: the host runs the setTimeout callback.
TimerFire(id) ==
    /\ frames = <<>>
    /\ overrides[id].timer = "pending"
    /\ Expire(id)
    /\ last' = Ended("timer", id, overrides[id].disposed)
    /\ UNCHANGED <<cfg, loggers, apis, frames>>

Ids == 1..Len(overrides)

Next ==
    \/ EmitError
    \/ EmitWarn
    \/ EmitInfo
    \/ EmitDebug
    \/ DebugForMs
    \/ WithLevelTimed
    \/ WithLevelCall
    \/ FnReturn
    \/ FnThrow
    \/ FnAwait
    \/ \E id \in Ids : SettleFulfilled(id)
    \/ \E id \in Ids : SettleRejected(id)
    \/ \E id \in Ids : DisposerCall(id)
    \/ \E id \in Ids : TimerFire(id)

Spec == Init /\ [][Next]_vars

(* ------------------- overrides with their level argument ---------------- *)

\* The `level` arguments looked at: values that do not parse ('warn', NaN,
\* the empty string), values that do, and undefined.
ArgLevels ==
    {[kind |-> "string", num |-> 0, str |-> "warn"],
     [kind |-> "nan", num |-> 0, str |-> ""],
     [kind |-> "string", num |-> 0, str |-> ""],
     [kind |-> "string", num |-> 0, str |-> "debug"],
     [kind |-> "number", num |-> 1, str |-> ""],
     Undef}

\* A logger in a runtime with timers; cfg.args keeps, for each override, the
\* `level` argument of the call that pushed it.
ArgInit ==
    /\ \E b \in LogLevels :
          /\ cfg = [warnLevel |-> ERROR, baseLevel |-> b,
                    setTimeout |-> TRUE, clearTimeout |-> TRUE, args |-> <<>>]
          /\ state = [baseLevel |-> b, level |-> b, inDebug |-> FALSE,
                      inDebugAllowInfo |-> FALSE, inDebugIncludeStack |-> FALSE]
    /\ tokens = <<>>
    /\ overrides = <<>>
    /\ frames = <<>>
    /\ last = Step("none", 0)
    /\ loggers = <<>>
    /\ apis = <<>>

\* api.withLevel(level, fn) up to the point where fn starts to run.
ArgWithLevel ==
    \E level \in ArgLevels :
       /\ NextId <= MaxOverrides
       /\ PushOverride("scoped", NewEntry(NextId, level, "undefined", "undefined"),
                       FALSE, "running")
       /\ frames' = Append(frames, NextId)
       /\ cfg' = [cfg EXCEPT !.args = Append(@, level)]
       /\ last' = Step("withLevel", NextId)
       /\ UNCHANGED <<loggers, apis>>

\* api.withLevelTimed(level, ms) with a valid ms.
ArgWithLevelTimed ==
    \E level \in ArgLevels :
       /\ NextId <= MaxOverrides
       /\ PushOverride("timed", NewEntry(NextId, level, "undefined", "undefined"),
                       TRUE, "none")
       /\ cfg' = [cfg EXCEPT !.args = Append(@, level)]
       /\ last' = Step("withLevelTimed", NextId)
       /\ UNCHANGED <<loggers, apis, frames>>

\* api.debugForMs(ms, opts) with a valid ms.
ArgDebugForMs ==
    \E allow \in {"undefined", "false"} :
       /\ NextId <= MaxOverrides
       /\ PushOverride("window", NewEntry(NextId, Undef, allow, "undefined"),
                       TRUE, "none")
       /\ cfg' = [cfg EXCEPT !.args = Append(@, Undef)]
       /\ last' = Step("debugForMs", NextId)
       /\ UNCHANGED <<loggers, apis, frames>>

ArgNext ==
    \/ EmitError
    \/ EmitWarn
    \/ EmitInfo
    \/ EmitDebug
    \/ ArgWithLevel
    \/ ArgWithLevelTimed
    \/ ArgDebugForMs
    \/ FnReturn
    \/ FnThrow
    \/ \E id \in 1..Len(overrides) : DisposerCall(id)
    \/ \E id \in 1..Len(overrides) : TimerFire(id)

ArgSpec == ArgInit /\ [][ArgNext]_vars

(* ----------------------------- resolveLevel ----------------------------- *)

\* An optional string that is undefined (env.DEBUG_MODE, env.LOG_LEVEL, ...).
NoStr == "<undefined>"

\* The values of the environment variables in the model.
DebugModeStrs == {NoStr, "1", "ON", "0"}
LogLevelStrs == {NoStr, "warn", "debug", "7", ""}
NodeEnvStrs == {NoStr, "production", "Production", "test"}

\* String.prototype.toLowerCase on the trimmed environment strings.
LowerStr(s) ==
    CASE s = "ON"         -> "on"
      [] s = "Production" -> "production"
      [] OTHER            -> s

\* The environment bag: opts.env ?? process.env; NoEnv when there is none.
Envs == [DEBUG_MODE : DebugModeStrs, LOG_LEVEL : LogLevelStrs, NODE_ENV : NodeEnvStrs]
NoEnv == [DEBUG_MODE |-> NoStr, LOG_LEVEL |-> NoStr, NODE_ENV |-> NoStr]

\* An optional string as the argument of parseLogLevel.
StrLevel(s) ==
    IF s = NoStr THEN [kind |-> "undefined", num |-> 0, str |-> ""]
    ELSE [kind |-> "string", num |-> 0, str |-> s]

\* A resolution that looks at DEBUG_MODE before the explicit level.
resolveLevel_DebugModeFirst(optLevel, warnLevel, env, prodDefault) ==
    LET explicit == parseLogLevel(optLevel)
        dm == IF env.DEBUG_MODE = NoStr THEN NoStr
              ELSE LowerStr(TrimStr(env.DEBUG_MODE))
        w  == IF env.LOG_LEVEL = NoStr THEN NoStr
              ELSE UpperStr(TrimStr(env.LOG_LEVEL))
        l  == IF w # NoStr /\ w # "" /\ w \in {"WARN", "WRN"} THEN warnLevel
              ELSE parseLogLevel(StrLevel(env.LOG_LEVEL))
        ne == IF env.NODE_ENV = NoStr THEN NoStr
              ELSE LowerStr(TrimStr(env.NODE_ENV))
    IN  IF dm \in {"1", "true", "yes", "on"} THEN DEBUG
        ELSE IF explicit # UNDEFINED THEN explicit
        ELSE IF l # UNDEFINED THEN l
        ELSE IF ne = "production"
             THEN (IF parseLogLevel(prodDefault) # UNDEFINED
                   THEN parseLogLevel(prodDefault) ELSE ERROR)
             ELSE INFO

resolveLevel(optLevel, warnLevel, env, prodDefault) ==
    LET explicit == parseLogLevel(optLevel)
        dm == IF env.DEBUG_MODE = NoStr THEN NoStr
              ELSE LowerStr(TrimStr(env.DEBUG_MODE))
        w  == IF env.LOG_LEVEL = NoStr THEN NoStr
              ELSE UpperStr(TrimStr(env.LOG_LEVEL))
        l  == IF w # NoStr /\ w # "" /\ w \in {"WARN", "WRN"} THEN warnLevel
              ELSE parseLogLevel(StrLevel(env.LOG_LEVEL))
        ne == IF env.NODE_ENV = NoStr THEN NoStr
              ELSE LowerStr(TrimStr(env.NODE_ENV))
    IN  IF explicit # UNDEFINED THEN explicit
        ELSE IF dm \in {"1", "true", "yes", "on"} THEN DEBUG
        ELSE IF l # UNDEFINED THEN l
        ELSE IF ne = "production"
             THEN (IF parseLogLevel(prodDefault) # UNDEFINED
                   THEN parseLogLevel(prodDefault) ELSE ERROR)
             ELSE INFO

(* ------------------- several loggers: child, withTags ------------------- *)

\* Loggers made by createLogger and ILogger objects made during one run, and
\* overrides pushed on each logger when several loggers are looked at.
MaxLoggers == 2
MaxApis == 3
MaxFamilyOverrides == 1

\* Static tags: maps from a few keys to values; no tags is the empty map.
NoTags == <<>>
TagArgs == {NoTags, [svc |-> "a"], [svc |-> "b", req |-> "r"]}

\* { ...a, ...b } for objects as maps: b's keys win.
Spread(a, b) ==
    [k \in (DOMAIN a) \cup (DOMAIN b) |-> IF k \in DOMAIN b THEN b[k] ELSE a[k]]

\* !tags || Object.keys(tags).length === 0
EmptyTags(tags) == DOMAIN tags = {}

\* const mergeTagsDataWins = !opts.mergeTagsPolicy || opts.mergeTagsPolicy === 'dataWins'
DataWins(opts) == opts["mergeTagsPolicy"] \in {"undefined", "dataWins"}

\* The options of the first logger, and the options handed to child(): an
\* object that has only some of the keys (none for child() and child({})).
DefaultOpts ==
    [level |-> Undef, warnLevel |-> Undef, prodDefault |-> Undef, env |-> NoEnv,
     tags |-> NoTags, mergeTagsPolicy |-> "undefined"]
FamilyOpts ==
    {[DefaultOpts EXCEPT !["level"] = l, !["env"] = e, !["tags"] = t] :
        l \in {Undef, [kind |-> "number", num |-> 1, str |-> ""]},
        e \in {NoEnv, [NoEnv EXCEPT !.NODE_ENV = "production"]},
        t \in {NoTags, [svc |-> "a"]}}
ChildOptArgs ==
    {<<>>,
     [level |-> Undef],
     [level |-> [kind |-> "string", num |-> 0, str |-> "off"]],
     [tags |-> [svc |-> "b", req |-> "r"]],
     [level |-> [kind |-> "string", num |-> 0, str |-> "INFO"], tags |-> NoTags]}

\* The closure state of one createLogger call: its options, warnLevel,
\* _state, and the pushOverride closures made so far.
NewLogger(opts) ==
    LET warnLevel == IF parseLogLevel(opts["warnLevel"]) # UNDEFINED
                     THEN parseLogLevel(opts["warnLevel"]) ELSE ERROR
        baseLevel == resolveLevel(opts["level"], warnLevel, opts["env"],
                                  opts["prodDefault"])
    IN  [opts |-> opts, warnLevel |-> warnLevel,
         state |-> [baseLevel |-> baseLevel, level |-> baseLevel, inDebug |-> FALSE,
                    inDebugAllowInfo |-> FALSE, inDebugIncludeStack |-> FALSE],
         tokens |-> <<>>, overrides |-> <<>>]

\* An ILogger object: the `api` of a createLogger call (inst is its logger)
\* or a `sibling` made by withTags (base is the ILogger it wraps).  `from` is
\* the call that made it and the ILogger that call was made on.
Api(inst, op, of) ==
    [kind |-> "api", inst |-> inst, base |-> 0, tags |-> NoTags,
     from |-> [op |-> op, of |-> of]]
Sibling(base, tags, op, of) ==
    [kind |-> "sibling", inst |-> 0, base |-> base, tags |-> tags,
     from |-> [op |-> op, of |-> of]]

\* What createLogger(opts) adds to the loggers and the ILogger objects, the
\* last ILogger being the one returned:
\*   return opts.tags ? withTags(api, opts.tags, mergeTagsDataWins) : api
createLogger(ls, as, opts, op, of) ==
    LET n == Len(ls) + 1
        a == Append(as, Api(n, op, of))
    IN  [loggers |-> Append(ls, NewLogger(opts)),
         apis |-> IF EmptyTags(opts["tags"]) THEN a
                  ELSE Append(a, Sibling(Len(a), opts["tags"], op, of))]

\* The logger whose closures an ILogger's level getter, emitters, withLevel,
\* withLevelTimed and debugForMs end up in: a sibling hands on to its base.
RECURSIVE TargetIn(_, _)
TargetIn(as, h) == IF as[h].kind = "api" THEN as[h].inst ELSE TargetIn(as, as[h].base)

Target(h) == TargetIn(apis, h)

\* get level() of an ILogger.
RECURSIVE LevelIn(_, _, _)
LevelIn(ls, as, h) ==
    IF as[h].kind = "api" THEN getLevelName(ls[as[h].inst].state.level)
    ELSE LevelIn(ls, as, as[h].base)

LevelOf(h) == LevelIn(loggers, apis, h)

\* Which emitters of a logger pass their gate.
Gates(L) ==
    [error |-> ErrorGate(L.state), warn |-> WarnGate(L.state, L.warnLevel),
     info |-> InfoGate(L.state), debug |-> DebugGate(L.state)]

\* pushOverride, the disposer and the timer callback, on the closure state L
\* of one logger (timers are there in this runtime).
pushOverrideOn(L, kind, entry, msValid) ==
    LET toks == Append(L.tokens, entry)
    IN  [L EXCEPT !.tokens = toks,
                  !.state = recomputeState(L.state, toks),
                  !.overrides = Append(@, [kind |-> kind, disposed |-> FALSE,
                                           timer |-> IF msValid THEN "pending"
                                                     ELSE "none"])]

disposeOn(L, id) ==
    IF L.overrides[id].disposed THEN L
    ELSE LET toks == RemoveToken(L.tokens, id)
         IN  [L EXCEPT !.tokens = toks,
                       !.state = recomputeState(L.state, toks),
                       !.overrides[id].disposed = TRUE,
                       !.overrides[id].timer = "none"]

expireOn(L, id) ==
    IF L.overrides[id].disposed THEN [L EXCEPT !.overrides[id].timer = "none"]
    ELSE LET toks == RemoveToken(L.tokens, id)
         IN  [L EXCEPT !.tokens = toks,
                       !.state = recomputeState(L.state, toks),
                       !.overrides[id].disposed = TRUE,
                       !.overrides[id].timer = "none"]

\* The argument of withTags: undefined, or a tag map (the empty object too).
WithTagsArgs ==
    {[def |-> FALSE, tags |-> NoTags]} \cup {[def |-> TRUE, tags |-> t] : t \in TagArgs}

\* A withTags that builds a logger of its own from the wrapped logger's
\* options instead of a sibling: createLogger({ ...opts, tags }).
withTags_OwnLogger(h, arg) ==
    IF ~arg.def \/ EmptyTags(arg.tags) THEN [loggers |-> loggers, apis |-> apis]
    ELSE createLogger(loggers, apis,
                      Spread(loggers[Target(h)].opts, [tags |-> arg.tags]),
                      "withTags", h)

\* withTags(arg) on the ILogger h:
\*   api:     tags ? withTags(api, tags, dw) : api
\*   sibling: extra ? withTags(sibling, merged tags, dw) : sibling
\* and withTags(base, tags) returns base when tags is empty.
withTags(h, arg) ==
    LET dw == DataWins(loggers[Target(h)].opts)
        t  == IF apis[h].kind = "api" THEN arg.tags
              ELSE IF dw THEN Spread(apis[h].tags, arg.tags)
                   ELSE Spread(arg.tags, apis[h].tags)
    IN  IF ~arg.def \/ EmptyTags(t)
        THEN [loggers |-> loggers, apis |-> apis]
        ELSE [loggers |-> loggers, apis |-> Append(apis, Sibling(h, t, "withTags", h))]

\* A sibling's child() that hands the options on without folding its tags in.
ChildOptsAt_NoFold(h, co) == co

\* The options object that reaches api.child when child(co) is called on the
\* ILogger h: each sibling on the way folds its tags into co.tags.
RECURSIVE ChildOptsAt(_, _)
ChildOptsAt(h, co) ==
    IF apis[h].kind = "api" THEN co
    ELSE LET dw    == DataWins(loggers[Target(h)].opts)
             tags  == apis[h].tags
             extra == IF "tags" \in DOMAIN co THEN co["tags"] ELSE NoTags
             t     == IF dw THEN Spread(tags, extra) ELSE Spread(extra, tags)
         IN  ChildOptsAt(apis[h].base, Spread(co, [tags |-> t]))

\* A child that starts from the parent's current effective level.
child_FromCurrentLevel(h, co) ==
    LET made == createLogger(loggers, apis,
                             Spread(loggers[Target(h)].opts, ChildOptsAt(h, co)),
                             "child", h)
        lvl  == loggers[Target(h)].state.level
    IN  [made EXCEPT !.loggers[Len(loggers) + 1].state.baseLevel = lvl,
                     !.loggers[Len(loggers) + 1].state.level = lvl]

\* child(co) on the ILogger h: createLogger({ ...opts, ...co }).
child(h, co) ==
    createLogger(loggers, apis,
                 Spread(loggers[Target(h)].opts, ChildOptsAt(h, co)),
                 "child", h)

\* The level arguments and window options of the overrides made here.
FamilyLevels ==
    {[kind |-> "number", num |-> 0, str |-> ""],
     [kind |-> "string", num |-> 0, str |-> "INFO"],
     [kind |-> "string", num |-> 0, str |-> "debug"]}
FamilyWindows == {"undefined", "false"}

\* What the last step did: the call, the ILogger it was made on (0 for a
\* callback), the logger it ended up in, the override it pushed or ended,
\* the emitters that reached their sink, and the options given to child().
FamStep(op, h, i, id) ==
    [op |-> op, via |-> h, inst |-> i, id |-> id, forwarded |-> {}, arg |-> <<>>]

single == <<cfg, state, tokens, overrides, frames>>

\* createLogger(options): the first logger.
FamilyInit ==
    /\ \E o \in FamilyOpts :
          LET made == createLogger(<<>>, <<>>, o, "createLogger", 0)
          IN  /\ loggers = made.loggers
              /\ apis = made.apis
              /\ last = FamStep("createLogger", Len(made.apis), 1, 0)
    /\ cfg = <<>> /\ state = <<>> /\ tokens = <<>>
    /\ overrides = <<>> /\ frames = <<>>

\* h.withLevelTimed(level, ms) with a valid ms.
FamWithLevelTimed(h) ==
    \E lvl \in FamilyLevels :
       LET i  == Target(h)
           id == Len(loggers[i].overrides) + 1
       IN  /\ id <= MaxFamilyOverrides
           /\ loggers' = [loggers EXCEPT ![i] =
                 pushOverrideOn(@, "timed",
                                NewEntry(id, lvl, "undefined", "undefined"), TRUE)]
           /\ last' = FamStep("withLevelTimed", h, i, id)
           /\ UNCHANGED <<apis, single>>

\* h.debugForMs(ms, opts) with a valid ms.
FamDebugForMs(h) ==
    \E allow \in FamilyWindows :
       LET i  == Target(h)
           id == Len(loggers[i].overrides) + 1
       IN  /\ id <= MaxFamilyOverrides
           /\ loggers' = [loggers EXCEPT ![i] =
                 pushOverrideOn(@, "window", NewEntry(id, Undef, allow, "undefined"),
                                TRUE)]
           /\ last' = FamStep("debugForMs", h, i, id)
           /\ UNCHANGED <<apis, single>>

\* h.withLevel(level, fn) up to the point where fn runs.
FamWithLevel(h) ==
    \E lvl \in FamilyLevels :
       LET i  == Target(h)
           id == Len(loggers[i].overrides) + 1
       IN  /\ id <= MaxFamilyOverrides
           /\ loggers' = [loggers EXCEPT ![i] =
                 pushOverrideOn(@, "scoped",
                                NewEntry(id, lvl, "undefined", "undefined"), FALSE)]
           /\ last' = FamStep("withLevel", h, i, id)
           /\ UNCHANGED <<apis, single>>

\* The fn of a withLevel call completes (returns, throws, or its awaitable
\* settles): dispose().
FamFnEnd(i, id) ==
    /\ loggers[i].overrides[id].kind = "scoped"
    /\ ~loggers[i].overrides[id].disposed
    /\ loggers' = [loggers EXCEPT ![i] = disposeOn(@, id)]
    /\ last' = FamStep("return", 0, i, id)
    /\ UNCHANGED <<apis, single>>

\* The disposer of a withLevelTimed / debugForMs call, called by its holder.
FamDisposerCall(i, id) ==
    /\ loggers[i].overrides[id].kind \in {"timed", "window"}
    /\ loggers' = [loggers EXCEPT ![i] = disposeOn(@, id)]
    /\ last' = FamStep("dispose", 0, i, id)
    /\ UNCHANGED <<apis, single>>

\* The timer of an override fires.
FamTimerFire(i, id) ==
    /\ loggers[i].overrides[id].timer = "pending"
    /\ loggers' = [loggers EXCEPT ![i] = expireOn(@, id)]
    /\ last' = FamStep("timer", 0, i, id)
    /\ UNCHANGED <<apis, single>>

\* h.error, h.warn, h.info and h.debug, called one after the other: a sibling
\* hands each call on to its base; recorded are those that pass their gate.
FamEmit(h) ==
    /\ last' = [FamStep("emit", h, Target(h), 0) EXCEPT
                  !.forwarded = {sev \in {"error", "warn", "info", "debug"} :
                                    Gates(loggers[Target(h)])[sev]}]
    /\ UNCHANGED <<loggers, apis, single>>

\* h.withTags(tags)
FamWithTags(h) ==
    \E arg \in WithTagsArgs :
       LET made == withTags(h, arg)
       IN  /\ Len(made.apis) <= MaxApis
           /\ Len(made.loggers) <= MaxLoggers
           /\ loggers' = made.loggers
           /\ apis' = made.apis
           /\ last' = FamStep("withTags", h, Target(h), 0)
           /\ UNCHANGED single

\* h.child(childOpts)
FamChild(h) ==
    \E co \in ChildOptArgs :
       LET made == child(h, co)
       IN  /\ Len(made.apis) <= MaxApis
           /\ Len(made.loggers) <= MaxLoggers
           /\ loggers' = made.loggers
           /\ apis' = made.apis
           /\ last' = [FamStep("child", h, Len(loggers) + 1, 0) EXCEPT !.arg = co]
           /\ UNCHANGED single

Handles == 1..Len(apis)
Closures == {<<i, id>> \in (1..MaxLoggers) \X (1..MaxFamilyOverrides) :
               i <= Len(loggers) /\ id <= Len(loggers[i].overrides)}

FamilyNext ==
    \/ \E h \in Handles : FamWithLevelTimed(h)
    \/ \E h \in Handles : FamDebugForMs(h)
    \/ \E h \in Handles : FamWithLevel(h)
    \/ \E c \in Closures : FamFnEnd(c[1], c[2])
    \/ \E c \in Closures : FamDisposerCall(c[1], c[2])
    \/ \E c \in Closures : FamTimerFire(c[1], c[2])
    \/ \E h \in Handles : FamEmit(h)
    \/ \E h \in Handles : FamWithTags(h)
    \/ \E h \in Handles : FamChild(h)

FamilySpec == FamilyInit /\ [][FamilyNext]_vars

(* ------------------------ construction: the level ----------------------- *)

\* The options that decide the base level: level, warnLevel, prodDefault and
\* the environment bag, each present or not, parsable or not.
LevelOpts ==
    {[DefaultOpts EXCEPT !["level"] = l, !["warnLevel"] = w, !["prodDefault"] = p,
                         !["env"] = e] :
        l \in {Undef,
               [kind |-> "nan", num |-> 0, str |-> ""],
               [kind |-> "number", num |-> -1, str |-> ""],
               [kind |-> "number", num |-> 2, str |-> ""],
               [kind |-> "number", num |-> 4, str |-> ""],
               [kind |-> "string", num |-> 0, str |-> "warn"],
               [kind |-> "string", num |-> 0, str |-> " error "],
               [kind |-> "string", num |-> 0, str |-> "7"],
               [kind |-> "string", num |-> 0, str |-> ""]},
        w \in {Undef,
               [kind |-> "string", num |-> 0, str |-> "INFO"],
               [kind |-> "number", num |-> 3, str |-> ""]},
        p \in {Undef,
               [kind |-> "string", num |-> 0, str |-> "debug"],
               [kind |-> "string", num |-> 0, str |-> "warn"],
               [kind |-> "number", num |-> 0, str |-> ""]},
        e \in Envs}

\* Before createLogger(options) is called: cfg holds the options.
LevelInit ==
    /\ \E o \in LevelOpts : cfg = [opts |-> o]
    /\ state = <<>> /\ tokens = <<>> /\ overrides = <<>> /\ frames = <<>>
    /\ loggers = <<>>
    /\ apis = <<>>
    /\ last = FamStep("none", 0, 0, 0)

\* createLogger(options)
CreateLoggerCall ==
    /\ loggers = <<>>
    /\ LET made == createLogger(<<>>, <<>>, cfg.opts, "createLogger", 0)
       IN  /\ loggers' = made.loggers
           /\ apis' = made.apis
           /\ last' = FamStep("createLogger", Len(made.apis), 1, 0)
    /\ UNCHANGED single

\* logger.level
ReadLevel ==
    /\ loggers # <<>>
    /\ last' = [FamStep("level", Len(apis), 1, 0) EXCEPT !.arg = LevelOf(Len(apis))]
    /\ UNCHANGED <<loggers, apis, single>>

LevelNext == CreateLoggerCall \/ ReadLevel

LevelSpec == LevelInit /\ [][LevelNext]_vars

(* ----------------------------- tags and data ---------------------------- *)

\* ILogger objects made during one run when tags are looked at: in the runs
\* with emitter calls, and in the runs with child().
MaxTagApis == 3
MaxChildApis == 4

\* Tag maps given to withTags and to the `tags` option; one has the key `data`.
TagLayerArgs == TagArgs \cup {[data |-> "t"]}
TagWithArgs ==
    {[def |-> FALSE, tags |-> NoTags]} \cup {[def |-> TRUE, tags |-> t] : t \in TagLayerArgs}

\* The `data` argument of an emitter: undefined, a plain object, or any other
\* value (a string, an array, null, a Date).
NoData == [kind |-> "undefined", obj |-> <<>>, val |-> ""]
Plain(o) == [kind |-> "plain", obj |-> o, val |-> ""]
DataArgs ==
    {NoData, Plain(<<>>), Plain([svc |-> "d"]), Plain([req |-> "q", n |-> "1"]),
     [kind |-> "other", obj |-> <<>>, val |-> "v"]}

\* isPlainObject(data) ? data : { data }
Obj(d) == IF d.kind = "plain" THEN d.obj ELSE [data |-> d.val]

\* A merge in which the call data wins whatever the policy.
merge_DataAlwaysWins(tags, dw, d) ==
    IF d.kind = "undefined" THEN Plain(tags) ELSE Plain(Spread(tags, Obj(d)))

\* The `merge` closure of a sibling.
merge(tags, dw, d) ==
    IF d.kind = "undefined" THEN Plain(tags)
    ELSE IF dw THEN Plain(Spread(tags, Obj(d)))
    ELSE Plain(Spread(Obj(d), tags))

\* The data that reaches the emitter of the api when an emitter of the ILogger
\* h is called with d: every sibling on the way merges its tags and hands on.
RECURSIVE DataAt(_, _)
DataAt(h, d) ==
    IF apis[h].kind = "api" THEN d
    ELSE DataAt(apis[h].base,
                merge(apis[h].tags, DataWins(loggers[Target(h)].opts), d))

\* The `api` object of a logger: what withLevel hands to fn.
ApiOf(i) == CHOOSE h \in 1..Len(apis) : apis[h].kind = "api" /\ apis[h].inst = i

TagOpts ==
    {[DefaultOpts EXCEPT !["tags"] = t, !["mergeTagsPolicy"] = p] :
        t \in {NoTags, [svc |-> "a"]}, p \in {"undefined", "dataWins", "tagsWin"}}
TagChildArgs ==
    {<<>>,
     [tags |-> NoTags],
     [tags |-> [req |-> "c"]],
     [tags |-> [svc |-> "c"], mergeTagsPolicy |-> "tagsWin"],
     [level |-> [kind |-> "string", num |-> 0, str |-> "off"]]}

\* The tag layers behind each ILogger, in the order they were applied: the
\* `tags` option of its logger first, then the argument of each withTags.
LayersOf(as, opts) ==
    [h \in 1..Len(as) |-> IF as[h].kind = "api" THEN <<>> ELSE <<opts["tags"]>>]

\* createLogger(options): the first logger.
TagInit ==
    /\ \E o \in TagOpts :
          LET made == createLogger(<<>>, <<>>, o, "createLogger", 0)
          IN  /\ loggers = made.loggers
              /\ apis = made.apis
              /\ cfg = [layers |-> LayersOf(made.apis, o)]
              /\ last = FamStep("createLogger", Len(made.apis), 1, 0)
    /\ state = <<>> /\ tokens = <<>> /\ overrides = <<>> /\ frames = <<>>

\* h.withTags(tags), with at most `max` ILogger objects in the run.
WithTagsUpTo(h, max) ==
    \E arg \in TagWithArgs :
       LET made == withTags(h, arg)
       IN  /\ Len(made.apis) <= max
           /\ apis' = made.apis
           /\ cfg' = IF Len(made.apis) > Len(apis)
                     THEN [cfg EXCEPT !.layers = Append(@, Append(cfg.layers[h], arg.tags))]
                     ELSE cfg
           /\ last' = [FamStep("withTags", h, Target(h), 0) EXCEPT !.arg = arg]
           /\ UNCHANGED <<loggers, state, tokens, overrides, frames>>

TagWithTags(h) == WithTagsUpTo(h, MaxTagApis)

\* What an emitter call on the ILogger h did: the data it was called with,
\* the data that reached the api's emitter, and whether the gate passed.
TagEmitted(sev, h, id, d) ==
    [FamStep(sev, h, Target(h), id) EXCEPT
        !.arg = [data |-> d, merged |-> DataAt(h, d)],
        !.forwarded = IF Gates(loggers[Target(h)])[sev] THEN {sev} ELSE {}]

\* h.error / h.warn / h.info / h.debug (msg, data), outside any fn.
TagEmit(h) ==
    /\ frames = <<>>
    /\ \E sev \in {"error", "warn", "info", "debug"}, d \in DataArgs : last' = TagEmitted(sev, h, 0, d)
    /\ UNCHANGED <<cfg, loggers, apis, state, tokens, overrides, frames>>

\* h.withLevel(level, fn) up to the point where fn runs: fn(api).
TagWithLevel(h) ==
    \E lvl \in FamilyLevels :
       LET i  == Target(h)
           id == Len(loggers[i].overrides) + 1
       IN  /\ frames = <<>>
           /\ id <= MaxFamilyOverrides
           /\ loggers' = [loggers EXCEPT ![i] =
                 pushOverrideOn(@, "scoped",
                                NewEntry(id, lvl, "undefined", "undefined"), FALSE)]
           /\ frames' = Append(frames, [via |-> h, log |-> ApiOf(i), inst |-> i,
                                        id |-> id])
           /\ last' = FamStep("withLevel", h, i, id)
           /\ UNCHANGED <<cfg, apis, state, tokens, overrides>>

\* Inside fn: an emitter call on the logger that fn was handed.
TagFnEmit ==
    /\ frames # <<>>
    /\ LET top == frames[Len(frames)]
       IN  \E sev \in {"error", "warn", "info", "debug"}, d \in DataArgs :
              last' = TagEmitted(sev, top.log, top.id, d)
    /\ UNCHANGED <<cfg, loggers, apis, state, tokens, overrides, frames>>

\* fn completes: dispose().
TagFnEnd ==
    /\ frames # <<>>
    /\ LET top == frames[Len(frames)]
       IN  /\ loggers' = [loggers EXCEPT ![top.inst] = disposeOn(@, top.id)]
           /\ last' = FamStep("return", 0, top.inst, top.id)
    /\ frames' = SubSeq(frames, 1, Len(frames) - 1)
    /\ UNCHANGED <<cfg, apis, state, tokens, overrides>>

TagNext ==
    \/ \E h \in Handles : TagWithTags(h)
    \/ \E h \in Handles : TagEmit(h)
    \/ \E h \in Handles : TagWithLevel(h)
    \/ TagFnEmit
    \/ TagFnEnd

TagSpec == TagInit /\ [][TagNext]_vars

(* ------------------------- child of a tagged logger ---------------------- *)

ChildWithTags(h) == WithTagsUpTo(h, MaxChildApis)

\* h.child(childOpts)
TagChild(h) ==
    \E co \in TagChildArgs :
       LET made == child(h, co)
           n    == Len(loggers) + 1
       IN  /\ Len(made.apis) <= MaxChildApis
           /\ Len(made.loggers) <= MaxLoggers
           /\ loggers' = made.loggers
           /\ apis' = made.apis
           /\ cfg' = [cfg EXCEPT !.layers =
                        [k \in 1..Len(made.apis) |->
                            IF k <= Len(apis) THEN cfg.layers[k]
                            ELSE IF made.apis[k].kind = "api" THEN <<>>
                            ELSE <<made.loggers[n].opts["tags"]>>]]
           /\ last' = [FamStep("child", h, n, 0) EXCEPT !.arg = co]
           /\ UNCHANGED <<state, tokens, overrides, frames>>

ChildNext ==
    \/ \E h \in Handles : ChildWithTags(h)
    \/ \E h \in Handles : TagChild(h)

ChildSpec == TagInit /\ [][ChildNext]_vars

(* ------------------------- sinks and the pipeline ------------------------ *)

Severities == {"error", "warn", "info", "debug"}

\* The console of the runtime, as the set of methods it has: a full console,
\* one without debug, one with error and info only, and no console at all.
Consoles ==
    {{"error", "warn", "info", "debug", "log"}, {"error", "warn", "info", "log"},
     {"error", "info"}, {}}

\* The options that decide where calls go: `sinks` (null, or an object with
\* some of the four sinks; omitted is the object with none), whether there is
\* a consoleFormatter and a mask, and the two fallbacks.
SinkOpts ==
    [sinks : {[null |-> TRUE, has |-> {}]}
                \cup {[null |-> FALSE, has |-> h] : h \in SUBSET Severities},
     consoleFormatter : BOOLEAN,
     mask : BOOLEAN,
     warnFallback : {"undefined", "console", "error", "info", "debug", "ignore"},
     debugFallback : {"undefined", "console", "info", "ignore"}]

\* A resolved sink: a sink of the caller (name is its key in `sinks`), a
\* bound console method (name is the method), or the no-op; fmt is the level
\* handed to the consoleFormatter by wrap(), "none" when it is not wrapped.
NULL_SINK == [kind |-> "null", name |-> "", fmt |-> "none"]
UserSink(name) == [kind |-> "user", name |-> name, fmt |-> "none"]

\* (C && typeof C.m === 'function') ? C.m.bind(C) : NULL_SINK
ConsoleSink(con, m) ==
    IF m \in con THEN [kind |-> "console", name |-> m, fmt |-> "none"] ELSE NULL_SINK

\* cDebug: console.debug, else console.log, else the no-op.
ConsoleDebug(con) ==
    IF "debug" \in con THEN ConsoleSink(con, "debug") ELSE ConsoleSink(con, "log")

\* wrap(lvl, f, c)
wrap(lvl, c) == [c EXCEPT !.fmt = lvl]

\* `sinks: null` read like an omitted `sinks`: everything falls back.
ResolveSinks_NullAsOmitted(o, con) ==
    LET f     == o.consoleFormatter
        error == IF f THEN wrap("error", ConsoleSink(con, "error"))
                 ELSE ConsoleSink(con, "error")
        info  == IF f THEN wrap("info", ConsoleSink(con, "info"))
                 ELSE ConsoleSink(con, "info")
        debug == IF f THEN wrap("debug", ConsoleDebug(con)) ELSE ConsoleDebug(con)
        warn  == IF f THEN wrap("warn", ConsoleSink(con, "warn"))
                 ELSE ConsoleSink(con, "warn")
    IN  [error |-> error, warn |-> warn, info |-> info, debug |-> debug]

\* warnFallback 'debug' taking the console's debug method instead of the
\* sink resolved for debug().
ResolveSinks_WarnToConsoleDebug(o, con) ==
    LET f     == o.consoleFormatter
        has   == o.sinks.has
        error == IF "error" \in has THEN UserSink("error")
                 ELSE IF f THEN wrap("error", ConsoleSink(con, "error"))
                 ELSE ConsoleSink(con, "error")
        info  == IF "info" \in has THEN UserSink("info")
                 ELSE IF f THEN wrap("info", ConsoleSink(con, "info"))
                 ELSE ConsoleSink(con, "info")
        df    == IF o.debugFallback = "undefined" THEN "console" ELSE o.debugFallback
        debug == IF "debug" \in has THEN UserSink("debug")
                 ELSE IF df = "console"
                      THEN (IF f THEN wrap("debug", ConsoleDebug(con))
                            ELSE ConsoleDebug(con))
                 ELSE IF df = "info" THEN info
                 ELSE NULL_SINK
        wf    == IF o.warnFallback = "undefined" THEN "console" ELSE o.warnFallback
        warn  == IF "warn" \in has THEN UserSink("warn")
                 ELSE IF wf = "console"
                      THEN (IF f THEN wrap("warn", ConsoleSink(con, "warn"))
                            ELSE ConsoleSink(con, "warn"))
                 ELSE IF wf = "error" THEN error
                 ELSE IF wf = "info" THEN info
                 ELSE IF wf = "debug" THEN ConsoleDebug(con)
                 ELSE NULL_SINK
    IN  IF o.sinks.null
        THEN [error |-> NULL_SINK, warn |-> NULL_SINK, info |-> NULL_SINK,
              debug |-> NULL_SINK]
        ELSE [error |-> error, warn |-> warn, info |-> info, debug |-> debug]

\* User sinks wrapped with the consoleFormatter as well.
ResolveSinks_FormatsUserSinks(o, con) ==
    LET f     == o.consoleFormatter
        has   == o.sinks.has
        error == IF "error" \in has
                 THEN (IF f THEN wrap("error", UserSink("error")) ELSE UserSink("error"))
                 ELSE IF f THEN wrap("error", ConsoleSink(con, "error"))
                 ELSE ConsoleSink(con, "error")
        info  == IF "info" \in has
                 THEN (IF f THEN wrap("info", UserSink("info")) ELSE UserSink("info"))
                 ELSE IF f THEN wrap("info", ConsoleSink(con, "info"))
                 ELSE ConsoleSink(con, "info")
        df    == IF o.debugFallback = "undefined" THEN "console" ELSE o.debugFallback
        debug == IF "debug" \in has
                 THEN (IF f THEN wrap("debug", UserSink("debug")) ELSE UserSink("debug"))
                 ELSE IF df = "console"
                      THEN (IF f THEN wrap("debug", ConsoleDebug(con))
                            ELSE ConsoleDebug(con))
                 ELSE IF df = "info" THEN info
                 ELSE NULL_SINK
        wf    == IF o.warnFallback = "undefined" THEN "console" ELSE o.warnFallback
        warn  == IF "warn" \in has
                 THEN (IF f THEN wrap("warn", UserSink("warn")) ELSE UserSink("warn"))
                 ELSE IF wf = "console"
                      THEN (IF f THEN wrap("warn", ConsoleSink(con, "warn"))
                            ELSE ConsoleSink(con, "warn"))
                 ELSE IF wf = "error" THEN error
                 ELSE IF wf = "info" THEN info
                 ELSE IF wf = "debug" THEN debug
                 ELSE NULL_SINK
    IN  IF o.sinks.null
        THEN [error |-> NULL_SINK, warn |-> NULL_SINK, info |-> NULL_SINK,
              debug |-> NULL_SINK]
        ELSE [error |-> error, warn |-> warn, info |-> info, debug |-> debug]

\* The sink resolution of createLogger, in the order of the code: error and
\* info first, then debug (which may reuse info), then warn (which may reuse
\* error, info or debug).
ResolveSinks(o, con) ==
    LET f     == o.consoleFormatter
        has   == o.sinks.has
        error == IF "error" \in has THEN UserSink("error")
                 ELSE IF f THEN wrap("error", ConsoleSink(con, "error"))
                 ELSE ConsoleSink(con, "error")
        info  == IF "info" \in has THEN UserSink("info")
                 ELSE IF f THEN wrap("info", ConsoleSink(con, "info"))
                 ELSE ConsoleSink(con, "info")
        df    == IF o.debugFallback = "undefined" THEN "console" ELSE o.debugFallback
        debug == IF "debug" \in has THEN UserSink("debug")
                 ELSE IF df = "console"
                      THEN (IF f THEN wrap("debug", ConsoleDebug(con))
                            ELSE ConsoleDebug(con))
                 ELSE IF df = "info" THEN info
                 ELSE NULL_SINK
        wf    == IF o.warnFallback = "undefined" THEN "console" ELSE o.warnFallback
        warn  == IF "warn" \in has THEN UserSink("warn")
                 ELSE IF wf = "console"
                      THEN (IF f THEN wrap("warn", ConsoleSink(con, "warn"))
                            ELSE ConsoleSink(con, "warn"))
                 ELSE IF wf = "error" THEN error
                 ELSE IF wf = "info" THEN info
                 ELSE IF wf = "debug" THEN debug
                 ELSE NULL_SINK
    IN  IF o.sinks.null
        THEN [error |-> NULL_SINK, warn |-> NULL_SINK, info |-> NULL_SINK,
              debug |-> NULL_SINK]
        ELSE [error |-> error, warn |-> warn, info |-> info, debug |-> debug]

\* What a sink, the console or the formatter is handed: the message and the
\* payload, each marked with what has been applied to it so far.
Args(masked, fmt) ==
    [msg |-> [text |-> "m", fmt |-> fmt],
     data |-> [val |-> "d", masked |-> masked, fmt |-> fmt]]
NoArgs == [msg |-> [text |-> "", fmt |-> "none"],
           data |-> [val |-> "", masked |-> FALSE, fmt |-> "none"]]
NoCall == [kind |-> "none", name |-> "", fmt |-> "none"]

\* What one emitter call did, on top of the fields of Step:
\*   passed     the gate let the call through
\*   mask       the mask was invoked
\*   formatter  the level the consoleFormatter was invoked with ("none": not invoked)
\*   sink       the sink or console method that was called (NoCall: none; the
\*              no-op counts as called, it does nothing)
\*   got        what that sink or console method was handed
\*   by         who threw to the caller: "none", "mask", "formatter" or "sink"
Logged(sev, passed, maskRun, fmtRun, sink, by) ==
    [op |-> sev, id |-> 0, wasDisposed |-> FALSE, ms |-> {},
     forwarded |-> sink.kind \in {"user", "console"},
     threw |-> by # "none",
     passed |-> passed,
     mask |-> maskRun,
     formatter |-> fmtRun,
     sink |-> sink,
     got |-> IF sink.kind = "none" THEN NoArgs ELSE Args(maskRun, fmtRun),
     by |-> by]

\* Which of the functions supplied by the caller throws when it is invoked.
Faults == {"none", "mask", "formatter", "sink"}

\* An emitter that swallows what the mask throws and gives the call up.
LogCall_SwallowsMask(sev, gate) ==
    /\ \E fault \in Faults :
          LET S  == cfg.sinks[sev]
              mk == cfg.opts.mask
              wr == S.fmt
          IN  last' =
                IF ~gate
                THEN Logged(sev, FALSE, FALSE, "none", NoCall, "none")
                ELSE IF mk /\ fault = "mask"
                THEN Logged(sev, TRUE, TRUE, "none", NoCall, "none")
                ELSE IF wr # "none" /\ fault = "formatter"
                THEN Logged(sev, TRUE, mk, wr, NoCall, "formatter")
                ELSE IF S.kind # "null" /\ fault = "sink"
                THEN Logged(sev, TRUE, mk, wr, S, "sink")
                ELSE Logged(sev, TRUE, mk, wr, S, "none")
    /\ UNCHANGED <<cfg, state, tokens, overrides, frames, loggers, apis>>

\* One emitter call behind its gate:  sink(label(msg), trans(data)), where
\* trans applies the mask (if any) and a wrapped sink runs the formatter and
\* then the console method.  The arguments are evaluated before the call, so
\* the mask runs first.
LogCall(sev, gate) ==
    /\ \E fault \in Faults :
          LET S  == cfg.sinks[sev]
              mk == cfg.opts.mask
              wr == S.fmt
          IN  last' =
                IF ~gate
                THEN Logged(sev, FALSE, FALSE, "none", NoCall, "none")
                ELSE IF mk /\ fault = "mask"
                THEN Logged(sev, TRUE, TRUE, "none", NoCall, "mask")
                ELSE IF wr # "none" /\ fault = "formatter"
                THEN Logged(sev, TRUE, mk, wr, NoCall, "formatter")
                ELSE IF S.kind # "null" /\ fault = "sink"
                THEN Logged(sev, TRUE, mk, wr, S, "sink")
                ELSE Logged(sev, TRUE, mk, wr, S, "none")
    /\ UNCHANGED <<cfg, state, tokens, overrides, frames, loggers, apis>>

LogError == LogCall("error", ErrorGate(state))
LogWarn == LogCall("warn", WarnGate(state, cfg.warnLevel))
LogInfo == LogCall("info", InfoGate(state))
LogDebug == LogCall("debug", DebugGate(state))

\* createLogger(options) in a runtime with the console `con` and timers.
Configured(o, con, b) ==
    /\ cfg = [warnLevel |-> ERROR, baseLevel |-> b,
              setTimeout |-> TRUE, clearTimeout |-> TRUE,
              opts |-> o, console |-> con, sinks |-> ResolveSinks(o, con)]
    /\ state = [baseLevel |-> b, level |-> b, inDebug |-> FALSE,
                inDebugAllowInfo |-> FALSE, inDebugIncludeStack |-> FALSE]
    /\ tokens = <<>>
    /\ overrides = <<>>
    /\ frames = <<>>
    /\ last = Step("none", 0)
    /\ loggers = <<>>
    /\ apis = <<>>

\* Every combination of the sink options, in every console, at every base level.
SinkInit == \E o \in SinkOpts, con \in Consoles, b \in LogLevels : Configured(o, con, b)

SinkNext == LogError \/ LogWarn \/ LogInfo \/ LogDebug

SinkSpec == SinkInit /\ [][SinkNext]_vars

\* A logger made with sinks: null in a runtime with a full console, with and
\* without a consoleFormatter and a mask, and all that can be done with it.
NoopInit ==
    \E o \in SinkOpts, b \in LogLevels :
        /\ o.sinks.null
        /\ o.warnFallback \in {"undefined", "debug"}
        /\ o.debugFallback = "undefined"
        /\ Configured(o, {"error", "warn", "info", "debug", "log"}, b)

NoopNext ==
    \/ LogError
    \/ LogWarn
    \/ LogInfo
    \/ LogDebug
    \/ DebugForMs
    \/ WithLevelTimed
    \/ WithLevelCall
    \/ FnReturn
    \/ FnThrow
    \/ FnAwait
    \/ \E id \in Ids : SettleFulfilled(id)
    \/ \E id \in Ids : SettleRejected(id)
    \/ \E id \in Ids : DisposerCall(id)
    \/ \E id \in Ids : TimerFire(id)

NoopSpec == NoopInit /\ [][NoopNext]_vars

(* -------------------------- the emitters in full ------------------------- *)

\* The most overrides pushed on a logger whose calls are followed step by step.
MaxPipeOverrides == 1

\* Values on their way to a sink.  A payload is a value of kind "plain" whose
\* obj maps each key to where its value came from ("err", "input", "data" or
\* a tag value); what the mask returned and what truncateFields cloned wrap
\* the value they were given.
NoVal == [kind |-> "none", obj |-> <<>>, val |-> ""]
Masked(v) == [kind |-> "masked", obj |-> <<>>, val |-> "", of |-> v]
Truncated(v) == [kind |-> "truncated", obj |-> <<>>, val |-> "", of |-> v]

\* typeof v === 'object' && v !== null (the mask is taken to return an object).
IsObject(v) == v.kind \in {"plain", "masked"}

\* v !== null && typeof v === 'object' && !Array.isArray(v) && plain prototype
isPlainObject(v) == v.kind = "plain"

\* truncateFields(obj, maxPerField)
truncateFields(v, maxPerField) ==
    IF ~IsObject(v) THEN v
    ELSE IF maxPerField <= 0 THEN v
    ELSE Truncated(v)

\* The transform with truncation applied first and the mask second.
trans_TruncateFirst(o, x) ==
    IF o.truncate # 0
    THEN (IF o.mask THEN Masked(truncateFields(x, o.truncate))
          ELSE truncateFields(x, o.truncate))
    ELSE IF o.mask THEN Masked(x) ELSE x

\* trans = opts.truncate ? x => truncateFields(opts.mask ? opts.mask(x) : x, opts.truncate)
\*                       : (opts.mask ?? identity)
trans(o, x) ==
    IF o.truncate # 0
    THEN truncateFields(IF o.mask THEN Masked(x) ELSE x, o.truncate)
    ELSE IF o.mask THEN Masked(x) ELSE x

\* The first argument of error(): error-like objects (stack: it has a string
\* stack; fields: its own enumerable keys), a string, and anything else.
ErrInputs ==
    {[kind |-> "error", stack |-> TRUE, fields |-> {}],
     [kind |-> "error", stack |-> TRUE, fields |-> {"code", "raw"}],
     [kind |-> "error", stack |-> FALSE, fields |-> {"stack", "code"}],
     [kind |-> "string", stack |-> FALSE, fields |-> {}],
     [kind |-> "other", stack |-> FALSE, fields |-> {}]}

\* The first argument of warn(), info() and debug().
MsgInput == [kind |-> "msg", stack |-> FALSE, fields |-> {}]

\* The second argument of the emitters.
PipeData ==
    {NoData, Plain([n |-> "data"]), Plain([stack |-> "data", input |-> "data"]),
     [kind |-> "other", obj |-> <<>>, val |-> "v"]}

isErrorLike(e) == e.kind = "error"

\* normalizeError that copies the stack whenever the error has one.
normalizeError_AlwaysStack(err, includeStack) ==
    [k \in {"name", "message"}
           \cup (IF err.stack THEN {"stack"} ELSE {})
           \cup (err.fields \ {"name", "message", "stack"}) |-> "err"]

\* normalizeError(err, includeStack)
normalizeError(err, includeStack) ==
    [k \in {"name", "message"}
           \cup (IF includeStack /\ err.stack THEN {"stack"} ELSE {})
           \cup (err.fields \ {"name", "message", "stack"}) |-> "err"]

\* const stackPolicy = opts.errorStackPolicy ?? 'auto'; const includeStack = ...
includeStack(o) ==
    LET stackPolicy == IF o.errorStackPolicy = "undefined" THEN "auto"
                       ELSE o.errorStackPolicy
        nodeEnv     == IF o.env.NODE_ENV = NoStr THEN "" ELSE o.env.NODE_ENV
    IN  IF stackPolicy = "never" THEN FALSE
        ELSE stackPolicy = "always" \/ LowerStr(TrimStr(nodeEnv)) # "production"

\* opts.errorInputPolicy ?? 'ifNonError' and opts.inputKey ?? 'input'
inputPolicy(o) ==
    IF o.errorInputPolicy = "undefined" THEN "ifNonError" ELSE o.errorInputPolicy
inputKey(o) == IF o.inputKey = "undefined" THEN "input" ELSE o.inputKey

\* The payload with the raw input attached whatever the policy says.
ErrorPayload_AlwaysInput(o, st, err, d) ==
    LET isErr == isErrorLike(err)
        norm  == IF isErr
                 THEN normalizeError(err, includeStack(o)
                                          \/ (st.inDebug /\ st.inDebugIncludeStack))
                 ELSE <<>>
        extra == IF isPlainObject(d) THEN d.obj
                 ELSE IF d.kind # "undefined" THEN [data |-> "data"]
                 ELSE <<>>
        input == [k \in {inputKey(o)} |-> "input"]
    IN  Plain(Spread(Spread(input, norm), extra))

\* The payload api.error builds from its two arguments.
ErrorPayload(o, st, err, d) ==
    LET isErr == isErrorLike(err)
        norm  == IF isErr
                 THEN normalizeError(err, includeStack(o)
                                          \/ (st.inDebug /\ st.inDebugIncludeStack))
                 ELSE <<>>
        extra == IF isPlainObject(d) THEN d.obj
                 ELSE IF d.kind # "undefined" THEN [data |-> "data"]
                 ELSE <<>>
        input == [k \in {inputKey(o)} |-> "input"]
    IN  Plain(IF isErr
              THEN (IF inputPolicy(o) = "always"
                    THEN Spread(Spread(input, norm), extra)
                    ELSE Spread(norm, extra))
              ELSE (IF inputPolicy(o) = "never"
                    THEN Spread(norm, extra)
                    ELSE Spread(input, extra)))

\* The message as the sink sees it: where the text came from, the level label
\* put in front of it ("none": no label), and the level the consoleFormatter
\* was given ("none": not formatted).
Msg(text, label, fmt) == [text |-> text, label |-> label, fmt |-> fmt]
NoMsg == Msg("", "none", "none")

\* isErr ? err.message : (typeof err === 'string' ? err : '[non-string error]')
MsgText(e) ==
    CASE e.kind = "error"  -> "err.message"
      [] e.kind = "string" -> "err"
      [] e.kind = "other"  -> "[non-string error]"
      [] OTHER             -> "msg"

\* The options of a logger whose calls are followed step by step.
PipeOptsOf(levelTags, mask, truncate, tags, formatter, stackPolicy, nodeEnv, inPolicy, inKey) ==
    [sinks |-> [null |-> FALSE, has |-> IF formatter THEN {} ELSE Severities],
     consoleFormatter |-> formatter,
     mask |-> mask,
     warnFallback |-> "undefined",
     debugFallback |-> "undefined",
     levelTags |-> levelTags,
     truncate |-> truncate,
     tags |-> tags,
     mergeTagsPolicy |-> "undefined",
     errorStackPolicy |-> stackPolicy,
     env |-> [DEBUG_MODE |-> NoStr, LOG_LEVEL |-> NoStr, NODE_ENV |-> nodeEnv],
     errorInputPolicy |-> inPolicy,
     inputKey |-> inKey]

\* Who throws when invoked, among the functions the caller supplied.
PipeFaults == {"none", "mask", "sink"}

\* What one emitter call did, on top of the fields of Step:
\*   input    the first argument of the call
\*   arg      the second argument of the call
\*   passed   the gate let the call through
\*   steps    what ran, in the order it ran: "tags" (the merge of a tagged
\*            logger), "normalize", "label", "mask", "truncate", "formatter",
\*            "sink"
\*   payload  the payload before the transform
\*   maskIn   what the mask was given        (NoVal: it did not run)
\*   truncIn  what truncateFields was given  (NoVal: it did not run)
\*   got      what the sink or console method was handed as (msg, data)
\*   by       who threw to the caller
Piped(sev, e, d, passed, steps, payload, maskIn, truncIn, sink, msg, data, by) ==
    [op |-> sev, id |-> 0, wasDisposed |-> FALSE, ms |-> {},
     forwarded |-> sink.kind \in {"user", "console"},
     threw |-> by # "none",
     input |-> e,
     arg |-> d,
     passed |-> passed,
     steps |-> steps,
     payload |-> payload,
     maskIn |-> maskIn,
     truncIn |-> truncIn,
     sink |-> sink,
     got |-> [msg |-> msg, data |-> data],
     by |-> by]

\* An emitter that builds the payload and runs the mask before it looks at
\* the gate.
Emitter_TransformsBeforeGate(sev, gate, o, S, st, e, d, fault) ==
    LET tagged  == ~EmptyTags(o.tags)
        d1      == IF tagged THEN merge(o.tags, DataWins(o), d) ELSE d
        s0      == IF tagged THEN <<"tags">> ELSE <<>>
        isErr   == sev = "error" /\ isErrorLike(e)
        payload == IF sev = "error" THEN ErrorPayload(o, st, e, d1) ELSE d1
        label   == IF o.levelTags THEN sev ELSE "none"
        s1      == s0 \o (IF isErr THEN <<"normalize">> ELSE <<>>)
                      \o (IF o.levelTags THEN <<"label">> ELSE <<>>)
        maskIn  == IF o.mask THEN payload ELSE NoVal
        s2      == s1 \o (IF o.mask THEN <<"mask">> ELSE <<>>)
        truncIn == IF o.truncate = 0 THEN NoVal
                   ELSE IF o.mask THEN Masked(payload) ELSE payload
        s3      == s2 \o (IF o.truncate # 0 THEN <<"truncate">> ELSE <<>>)
        out     == trans(o, payload)
        s4      == s3 \o (IF S.fmt # "none" THEN <<"formatter">> ELSE <<>>)
        called  == S.kind # "null"
        s5      == s4 \o (IF called THEN <<"sink">> ELSE <<>>)
    IN  IF o.mask /\ fault = "mask"
        THEN Piped(sev, e, d, gate, s2, payload, maskIn, NoVal, NoCall, NoMsg, NoVal, "mask")
        ELSE IF ~gate
        THEN Piped(sev, e, d, FALSE, s3, payload, maskIn, truncIn, NoCall, NoMsg, NoVal, "none")
        ELSE IF called /\ fault = "sink"
        THEN Piped(sev, e, d, TRUE, s5, payload, maskIn, truncIn, S,
                   Msg(MsgText(e), label, S.fmt), out, "sink")
        ELSE Piped(sev, e, d, TRUE, s5, payload, maskIn, truncIn,
                   IF called THEN S ELSE NoCall,
                   IF called THEN Msg(MsgText(e), label, S.fmt) ELSE NoMsg,
                   IF called THEN out ELSE NoVal, "none")

\* One call of error / warn / info / debug on the logger made with the
\* options o, whose sink for this level is S, in the override state st:
\* the wrapper of a tagged logger merges the tags and calls the emitter of
\* the api; behind its gate that one builds the error payload (error only),
\* puts the label in front of the message, runs the transform and calls the
\* sink, which, if wrapped, runs the formatter and then the console method.
Emitter(sev, gate, o, S, st, e, d, fault) ==
    LET tagged  == ~EmptyTags(o.tags)
        d1      == IF tagged THEN merge(o.tags, DataWins(o), d) ELSE d
        s0      == IF tagged THEN <<"tags">> ELSE <<>>
        isErr   == sev = "error" /\ isErrorLike(e)
        payload == IF sev = "error" THEN ErrorPayload(o, st, e, d1) ELSE d1
        label   == IF o.levelTags THEN sev ELSE "none"
        s1      == s0 \o (IF isErr THEN <<"normalize">> ELSE <<>>)
                      \o (IF o.levelTags THEN <<"label">> ELSE <<>>)
        maskIn  == IF o.mask THEN payload ELSE NoVal
        s2      == s1 \o (IF o.mask THEN <<"mask">> ELSE <<>>)
        truncIn == IF o.truncate = 0 THEN NoVal
                   ELSE IF o.mask THEN Masked(payload) ELSE payload
        s3      == s2 \o (IF o.truncate # 0 THEN <<"truncate">> ELSE <<>>)
        out     == trans(o, payload)
        s4      == s3 \o (IF S.fmt # "none" THEN <<"formatter">> ELSE <<>>)
        called  == S.kind # "null"
        s5      == s4 \o (IF called THEN <<"sink">> ELSE <<>>)
    IN  IF ~gate
        THEN Piped(sev, e, d, FALSE, s0, NoVal, NoVal, NoVal, NoCall, NoMsg, NoVal, "none")
        ELSE IF o.mask /\ fault = "mask"
        THEN Piped(sev, e, d, TRUE, s2, payload, maskIn, NoVal, NoCall, NoMsg, NoVal, "mask")
        ELSE IF called /\ fault = "sink"
        THEN Piped(sev, e, d, TRUE, s5, payload, maskIn, truncIn, S,
                   Msg(MsgText(e), label, S.fmt), out, "sink")
        ELSE Piped(sev, e, d, TRUE, s5, payload, maskIn, truncIn,
                   IF called THEN S ELSE NoCall,
                   IF called THEN Msg(MsgText(e), label, S.fmt) ELSE NoMsg,
                   IF called THEN out ELSE NoVal, "none")

\* log.error(err, data)
PipeError ==
    /\ \E e \in ErrInputs, d \in PipeData, fault \in PipeFaults :
          last' = Emitter("error", ErrorGate(state), cfg.opts, cfg.sinks["error"],
                          state, e, d, fault)
    /\ UNCHANGED <<cfg, state, tokens, overrides, frames, loggers, apis>>

\* log.warn(msg, data)
PipeWarn ==
    /\ \E d \in PipeData, fault \in PipeFaults :
          last' = Emitter("warn", WarnGate(state, cfg.warnLevel), cfg.opts,
                          cfg.sinks["warn"], state, MsgInput, d, fault)
    /\ UNCHANGED <<cfg, state, tokens, overrides, frames, loggers, apis>>

\* log.info(msg, data)
PipeInfo ==
    /\ \E d \in PipeData, fault \in PipeFaults :
          last' = Emitter("info", InfoGate(state), cfg.opts, cfg.sinks["info"],
                          state, MsgInput, d, fault)
    /\ UNCHANGED <<cfg, state, tokens, overrides, frames, loggers, apis>>

\* log.debug(msg, data)
PipeDebug ==
    /\ \E d \in PipeData, fault \in PipeFaults :
          last' = Emitter("debug", DebugGate(state), cfg.opts, cfg.sinks["debug"],
                          state, MsgInput, d, fault)
    /\ UNCHANGED <<cfg, state, tokens, overrides, frames, loggers, apis>>

\* log.debugForMs(ms, { allowInfo, includeStack }) with a valid ms.
PipeDebugForMs(max) ==
    \E allow \in {"undefined", "false"}, stack \in {"undefined", "false"} :
       /\ NextId <= max
       /\ PushOverride("window", NewEntry(NextId, Undef, allow, stack), TRUE, "none")
       /\ last' = Step("debugForMs", NextId)
       /\ UNCHANGED <<cfg, loggers, apis, frames>>

\* log.withLevelTimed(level, ms) with a valid ms.
PipeWithLevelTimed(max) ==
    \E level \in {[kind |-> "string", num |-> 0, str |-> "off"],
                  [kind |-> "string", num |-> 0, str |-> "debug"]} :
       /\ NextId <= max
       /\ PushOverride("timed", NewEntry(NextId, level, "undefined", "undefined"),
                       TRUE, "none")
       /\ last' = Step("withLevelTimed", NextId)
       /\ UNCHANGED <<cfg, loggers, apis, frames>>

\* Loggers with and without level labels, a mask, truncation (omitted, a
\* positive and a negative maximum), static tags and a consoleFormatter in
\* front of the console, at a base level that lets nothing and one that lets
\* error, warn and info through.
PipeInit ==
    \E levelTags \in BOOLEAN, mask \in BOOLEAN, truncate \in {0, 5, -1},
       tags \in {NoTags, [svc |-> "a"]}, formatter \in BOOLEAN, b \in {NONE, INFO} :
        Configured(PipeOptsOf(levelTags, mask, truncate, tags, formatter,
                              "undefined", NoStr, "undefined", "undefined"),
                   {"error", "warn", "info", "debug", "log"}, b)

PipeNext ==
    \/ PipeError
    \/ PipeWarn
    \/ PipeInfo
    \/ PipeDebug
    \/ PipeDebugForMs(MaxPipeOverrides)
    \/ PipeWithLevelTimed(MaxPipeOverrides)
    \/ \E id \in Ids : DisposerCall(id)
    \/ \E id \in Ids : TimerFire(id)

PipeSpec == PipeInit /\ [][PipeNext]_vars

\* Loggers with every stack policy in three environments; error() is called
\* while debug windows and timed levels come and go.
StackInit ==
    \E stackPolicy \in {"undefined", "auto", "always", "never"},
       nodeEnv \in {NoStr, "Production", "test"} :
        Configured(PipeOptsOf(FALSE, FALSE, 0, NoTags, FALSE,
                              stackPolicy, nodeEnv, "undefined", "undefined"),
                   {"error", "warn", "info", "debug", "log"}, ERROR)

StackNext ==
    \/ PipeError
    \/ PipeDebugForMs(MaxOverrides)
    \/ PipeWithLevelTimed(MaxOverrides)
    \/ \E id \in Ids : DisposerCall(id)
    \/ \E id \in Ids : TimerFire(id)

StackSpec == StackInit /\ [][StackNext]_vars

\* Loggers with every errorInputPolicy, with and without an inputKey, tagged
\* and untagged, at a base level that gates error() in and one that does not.
InputInit ==
    \E inPolicy \in {"undefined", "never", "ifNonError", "always"},
       inKey \in {"undefined", "raw"}, tags \in {NoTags, [svc |-> "a"]},
       b \in {NONE, ERROR} :
        Configured(PipeOptsOf(FALSE, FALSE, 0, tags, FALSE,
                              "undefined", NoStr, inPolicy, inKey),
                   {"error", "warn", "info", "debug", "log"}, b)

InputNext == PipeError

InputSpec == InputInit /\ [][InputNext]_vars

(* ----------------------- what the claims speak of ----------------------- *)

\* The positions of the window tokens and of the level tokens on the stack.
WindowIdx == {i \in 1..Len(tokens) : tokens[i].debugWindow.set}
LevelIdx == {i \in 1..Len(tokens) : tokens[i].level # UNDEFINED}

MaxOf(S) == CHOOSE i \in S : \A j \in S : j <= i

HasWindowToken == WindowIdx # {}

\* The most recently pushed window token still on the stack.
LastWindow == tokens[MaxOf(WindowIdx)].debugWindow

\* The level of the most recently pushed level token still on the stack, and
\* the base level resolved at construction when there is none.
LastLevel == IF LevelIdx = {} THEN cfg.baseLevel ELSE tokens[MaxOf(LevelIdx)].level

LevelNames == [l \in LogLevels |->
                 CASE l = NONE -> "none" [] l = ERROR -> "error"
                   [] l = INFO -> "info" [] l = DEBUG -> "debug"]

\* The token a step pushed or removed, as a set of at most one token.
PushedTokens ==
    IF Len(tokens') = Len(tokens) + 1 THEN {tokens'[Len(tokens')]} ELSE {}
RemovedTokens ==
    {tokens[i] : i \in {j \in 1..Len(tokens) :
                          \A k \in 1..Len(tokens') : tokens'[k].token # tokens[j].token}}

(* -------------------------------- claims -------------------------------- *)

\* C1: a debug() call reaches the debug sink if and only if the effective
\* level is >= DEBUG or at least one debug-window token is on the override
\* stack, whatever that window's allowInfo flag and whatever the base level.
C1_DebugGate ==
    last.op = "debug" =>
        (last.forwarded <=> (state.level >= DEBUG \/ HasWindowToken))

\* A debug() call forwarded at base level NONE, effective level NONE, through
\* a window opened with allowInfo = false.
C1_Witness ==
    /\ last.op = "debug" /\ last.forwarded
    /\ cfg.baseLevel = NONE /\ state.level = NONE
    /\ HasWindowToken /\ ~LastWindow.allowInfo

\* C2: an info() call reaches the info sink if and only if the effective level
\* is >= INFO, or a debug window is active and the most recently pushed
\* debug-window token still on the stack has allowInfo = true.
C2_InfoGate ==
    last.op = "info" =>
        (last.forwarded <=>
            (state.level >= INFO \/ (HasWindowToken /\ LastWindow.allowInfo)))

\* An info() call held back below INFO although an older window on the stack
\* allows info: the newer window, opened with allowInfo = false, decides.
C2_Witness ==
    /\ last.op = "info" /\ ~last.forwarded
    /\ state.level < INFO
    /\ Len(tokens) = 2
    /\ tokens[1].debugWindow.set /\ tokens[1].debugWindow.allowInfo
    /\ tokens[2].debugWindow.set /\ ~tokens[2].debugWindow.allowInfo

\* C3: error() is forwarded iff the effective level is >= ERROR and warn() iff
\* the effective level is >= warnLevel; a debug window never changes either,
\* and warn() does not depend on the INFO or DEBUG gates.
C3_ThresholdGates ==
    /\ last.op = "error" => (last.forwarded <=> state.level >= ERROR)
    /\ last.op = "warn" => (last.forwarded <=> state.level >= cfg.warnLevel)

\* A warn() call held back below warnLevel while a debug window with both
\* flags set is active (debug() and info() would pass).
C3_Witness ==
    /\ last.op = "warn" /\ ~last.forwarded
    /\ state.level < cfg.warnLevel
    /\ HasWindowToken /\ LastWindow.allowInfo /\ LastWindow.includeStack

\* C4: the effective level, and the name the `level` accessor returns, is the
\* level of the most recently pushed level token still on the stack, and the
\* frozen base level when the stack holds no level token.
C4_EffectiveLevel ==
    /\ state.baseLevel = cfg.baseLevel
    /\ state.level = LastLevel
    /\ getLevelName(state.level) = LevelNames[LastLevel]

\* Two overlapping level overrides with different levels, both different from
\* the base level: the later one is the effective level.
C4_Witness ==
    /\ Len(tokens) = 2
    /\ tokens[1].level # UNDEFINED /\ tokens[2].level # UNDEFINED
    /\ tokens[1].level # tokens[2].level
    /\ tokens[1].level # cfg.baseLevel /\ tokens[2].level # cfg.baseLevel
    /\ state.level = tokens[2].level

\* C5: the debug flags are those of the most recently pushed debug-window
\* token still on the stack (all false when there is none), whatever level
\* tokens lie before or after it; a step that pushes or removes a level token
\* leaves the debug flags as they are, and a step that pushes or removes a
\* debug-window token leaves the effective level and the `level` accessor as
\* they are.
C5_FlagsFollowWindow ==
    /\ state.inDebug = HasWindowToken
    /\ state.inDebugAllowInfo = (HasWindowToken /\ LastWindow.allowInfo)
    /\ state.inDebugIncludeStack = (HasWindowToken /\ LastWindow.includeStack)

C5_Frame ==
    \A t \in PushedTokens \cup RemovedTokens :
        /\ t.level # UNDEFINED =>
              /\ state'.inDebug = state.inDebug
              /\ state'.inDebugAllowInfo = state.inDebugAllowInfo
              /\ state'.inDebugIncludeStack = state.inDebugIncludeStack
        /\ t.debugWindow.set =>
              /\ state'.level = state.level
              /\ getLevelName(state'.level) = getLevelName(state.level)

\* C5: the flags follow the newest window token in every state, and every
\* step keeps the frame between level tokens and window tokens.
C5_Independence == []C5_FlagsFollowWindow /\ [][C5_Frame]_vars

\* A level token pushed after a debug window with allowInfo = false and
\* includeStack = true: the level changed, the window's flags stand.
C5_Witness ==
    /\ Len(tokens) = 2
    /\ tokens[1].debugWindow.set /\ tokens[2].level # UNDEFINED
    /\ tokens[2].level # cfg.baseLevel
    /\ state.level = tokens[2].level
    /\ state.inDebug /\ ~state.inDebugAllowInfo /\ state.inDebugIncludeStack

\* The withLevel calls whose fn is still to complete, and those a step completes.
Active(id) == overrides[id].kind = "scoped" /\ overrides[id].fn \in {"running", "pending"}
Completes(id) ==
    /\ id \in Ids
    /\ Active(id)
    /\ overrides'[id].fn = "done"

C7_TokenLivesWithFn ==
    \A id \in Ids :
        overrides[id].kind = "scoped" =>
            /\ (FindIndex(tokens, id) > 0) <=> Active(id)
            /\ overrides[id].disposed <=> overrides[id].fn = "done"
            /\ overrides[id].timer = "none"

\* An fn suspended on its awaitable, withLevel having returned the pending
\* promise, with the token still there after a timer of another override fired.
C7_Witness ==
    /\ last.op = "timer" /\ ~last.wasDisposed
    /\ frames = <<>>
    /\ \E id \in Ids : /\ overrides[id].kind = "scoped"
                       /\ overrides[id].fn = "pending"
                       /\ FindIndex(tokens, id) > 0

C9_OnStackUntilEnded ==
    \A id \in Ids :
        overrides[id].kind \in {"timed", "window"} =>
            (FindIndex(tokens, id) > 0 <=> ~overrides[id].disposed)

C9_TimerPending(id) == id \in Ids /\ overrides[id].timer = "pending"

\* C9: on the stack until ended, and a pending timer leads to the token
\* being off the stack.
C9_TimedContract ==
    /\ []C9_OnStackUntilEnded
    /\ \A id \in 1..MaxOverrides :
          C9_TimerPending(id) ~> (id \in Ids /\ FindIndex(tokens, id) = 0)

\* The timer of a withLevelTimed override fired and took its level token off
\* the stack; the effective level is the base level again.
C9_Witness ==
    /\ last.op = "timer" /\ ~last.wasDisposed
    /\ overrides[last.id].kind = "timed"
    /\ overrides[last.id].disposed
    /\ FindIndex(tokens, last.id) = 0
    /\ tokens = <<>> /\ state.level = cfg.baseLevel

\* C10: the first disposer call before expiry removes its token at once; a
\* disposer call that comes after an earlier call or after the timer fired,
\* and a timer that fires after the disposer was called, change neither the
\* token stack nor the derived state.
C10_DisposerStep ==
    /\ (last'.op \in {"dispose", "timer"} /\ last'.wasDisposed) =>
          UNCHANGED <<tokens, state>>
    /\ (last'.op = "dispose" /\ ~last'.wasDisposed) =>
          /\ FindIndex(tokens, last'.id) > 0
          /\ tokens' = Splice(tokens, FindIndex(tokens, last'.id))

\* C10: every step keeps the disposer's contract.
C10_DisposerIdempotent == [][C10_DisposerStep]_vars

\* A disposer called again while the token of another override is on top of
\* the stack: that token stays.
C10_Witness ==
    /\ last.op = "dispose" /\ last.wasDisposed
    /\ Len(tokens) = 1 /\ tokens[1].token # last.id
    /\ tokens[1].token > last.id

\* The steps that end an override: a disposer call, a timer callback, and
\* the three ways withLevel cleans up after fn.
EndOps == {"dispose", "timer", "return", "throw", "fulfilled", "rejected"}

\* C11: a step takes a token off the stack only by ending the override that
\* owns it, and then exactly that token is spliced out: every other token
\* stays, in the same relative order, wherever the token was on the stack; a
\* step that ends an override whose token is on the stack takes it off.
C11_Step ==
    /\ \A id \in 1..MaxOverrides :
          (id \in Ids /\ OnStack(id) /\ FindIndex(tokens', id) = 0) =>
              /\ last'.op \in EndOps /\ last'.id = id
              /\ Len(tokens') = Len(tokens) - 1
              /\ \A i \in 1..Len(tokens') :
                    tokens'[i] = IF i < FindIndex(tokens, id)
                                 THEN tokens[i] ELSE tokens[i + 1]
    /\ (last'.op \in EndOps /\ ~last'.wasDisposed) =>
          FindIndex(tokens', last'.id) = 0

C12_TokenKindMatchesOperation ==
    \A i \in 1..Len(tokens) :
        LET t == tokens[i]
            k == overrides[t.token].kind
        IN  /\ (t.level # UNDEFINED) # t.debugWindow.set
            /\ k \in {"scoped", "timed"} => (t.level # UNDEFINED /\ ~t.debugWindow.set)
            /\ k = "window" => (t.level = UNDEFINED /\ t.debugWindow.set)

\* C13: a withLevelTimed or debugForMs call throws exactly when its ms is not
\* a finite number greater than 0, and a call that throws pushes no token,
\* starts no timer, and leaves the stack and the derived state as they were.
C13_Step ==
    \A ms \in last'.ms :
        /\ last'.op \in {"withLevelTimed", "debugForMs"}
        /\ last'.threw <=> ~(ms.finite /\ ms.val > 0)
        /\ last'.threw => UNCHANGED <<tokens, state, overrides>>
        /\ ~last'.threw => Len(tokens') = Len(tokens) + 1

C13_InvalidMsThrows == [][C13_Step]_vars

\* withLevelTimed refused ms = NaN while a debug window and a level override
\* were active: both are still there.
C13_Witness ==
    /\ last.op = "withLevelTimed" /\ last.threw
    /\ last.ms = {[finite |-> FALSE, val |-> 0]}
    /\ Len(tokens) = 2
    /\ state.inDebug /\ state.level # cfg.baseLevel

\* C14: in a runtime without setTimeout no override has a timer and no timer
\* callback ever runs.
C14_NoTimer ==
    ~cfg.setTimeout =>
        /\ last.op # "timer"
        /\ \A id \in Ids : overrides[id].timer = "none"

\* C14: in a runtime without setTimeout, a withLevelTimed or debugForMs call
\* with a valid ms returns normally with its token on top of the stack and
\* the derived state following it; the token leaves the stack only by its
\* disposer, and the first disposer call takes it off.
C14_Step ==
    ~cfg.setTimeout =>
        /\ (last'.op \in {"withLevelTimed", "debugForMs"} /\ last'.id > 0) =>
              /\ ~last'.threw
              /\ tokens' = Append(tokens, tokens'[Len(tokens')])
              /\ tokens'[Len(tokens')].token = last'.id
              /\ state'.level = LastLevel'
              /\ state'.inDebug = HasWindowToken'
        /\ \A id \in 1..MaxOverrides :
              (id \in Ids /\ overrides[id].kind \in {"timed", "window"}
                 /\ OnStack(id) /\ FindIndex(tokens', id) = 0) =>
                 (last'.op = "dispose" /\ last'.id = id)
        /\ (last'.op = "dispose" /\ ~last'.wasDisposed) =>
              FindIndex(tokens', last'.id) = 0

C14_WithoutTimers == []C14_NoTimer /\ [][C14_Step]_vars

\* Without timers: the disposer of a debug window ended the window after
\* other calls had been made while it was open.
C14_Witness ==
    /\ ~cfg.setTimeout
    /\ last.op = "dispose" /\ ~last.wasDisposed
    /\ last.id = 1 /\ overrides[1].kind = "window"
    /\ Len(overrides) = 2 /\ overrides[2].kind = "timed" /\ OnStack(2)
    /\ ~state.inDebug

\* The ILogger that the ILogger h was made to wrap: the one withTags was
\* called on, or the api that createLogger wrapped for its `tags` option;
\* 0 for an ILogger that wraps nothing.
WrappedBy(h) ==
    IF apis[h].from.op = "withTags" THEN apis[h].from.of
    ELSE IF apis[h].kind = "sibling" THEN apis[h].base
    ELSE 0

\* The ILogger at the bottom of a chain of wrappers.
RECURSIVE BaseOf(_)
BaseOf(h) == IF WrappedBy(h) = 0 THEN h ELSE BaseOf(WrappedBy(h))

\* C15: a wrapper made by withTags, at any depth, and the wrapper made for
\* the `tags` option, end up in the same logger as the ILogger they wrap:
\* same `level` accessor, same override stack, same gating.
C15_SameLogger ==
    \A h \in Handles :
        WrappedBy(h) # 0 =>
            /\ LevelOf(h) = LevelOf(WrappedBy(h))
            /\ Target(h) = Target(WrappedBy(h))
            /\ Gates(loggers[Target(h)]) = Gates(loggers[Target(WrappedBy(h))])
            /\ LevelOf(h) = LevelOf(BaseOf(h))

\* C15: a level override pushed through any ILogger shows at once in the
\* `level` accessor of its base and of every wrapper of that base, and an
\* override ended on the logger of a base shows in all of them.
C15_Step ==
    /\ last'.op \in {"withLevelTimed", "withLevel"} =>
          \A h \in Handles :
              BaseOf(h) = BaseOf(last'.via) =>
                  LevelIn(loggers', apis', h) = getLevelName(
                      loggers'[last'.inst].tokens[Len(loggers'[last'.inst].tokens)].level)
    /\ last'.op \in {"dispose", "timer", "return"} =>
          \A h \in Handles :
              Target(BaseOf(h)) = last'.inst =>
                  LevelIn(loggers', apis', h) = getLevelName(loggers'[last'.inst].state.level)

C15_WrappersShareState == []C15_SameLogger /\ [][C15_Step]_vars

\* A level override pushed through a wrapper of a wrapper: the `level` of the
\* api at the bottom is no longer the base level's name and all three agree.
C15_Witness ==
    /\ last.op = "withLevelTimed"
    /\ apis[last.via].kind = "sibling"
    /\ apis[apis[last.via].base].kind = "sibling"
    /\ BaseOf(last.via) = 1
    /\ LevelOf(1) # getLevelName(loggers[1].state.baseLevel)
    /\ LevelOf(last.via) = LevelOf(1)
    /\ LevelOf(apis[last.via].base) = LevelOf(1)

\* C16: every logger's base level is the one resolved from its own options,
\* and an ILogger returned by child() ends up in another logger than the
\* ILogger child() was called on.
C16_OwnLogger ==
    /\ \A i \in 1..Len(loggers) :
          LET o == loggers[i].opts
          IN  loggers[i].state.baseLevel =
                 resolveLevel(o["level"], loggers[i].warnLevel, o["env"], o["prodDefault"])
    /\ \A h \in Handles :
          apis[h].from.op = "child" => Target(h) # Target(apis[h].from.of)

\* C16: child(co) adds a logger with an empty stack, no debug flags and the
\* base level resolved from { ...opts, ...co }, whatever the parent's
\* effective level is at that moment; every step changes at most the logger
\* it ends up in, so no override on a parent changes a child or the reverse.
C16_Step ==
    /\ last'.op = "child" =>
          LET n == last'.inst
              m == Spread(loggers[Target(last'.via)].opts, last'.arg)
              w == IF parseLogLevel(m["warnLevel"]) # UNDEFINED
                   THEN parseLogLevel(m["warnLevel"]) ELSE ERROR
              b == resolveLevel(m["level"], w, m["env"], m["prodDefault"])
          IN  /\ n = Len(loggers) + 1 /\ Len(loggers') = n
              /\ TargetIn(apis', Len(apis')) = n
              /\ loggers'[n].tokens = <<>>
              /\ loggers'[n].state =
                    [baseLevel |-> b, level |-> b, inDebug |-> FALSE,
                     inDebugAllowInfo |-> FALSE, inDebugIncludeStack |-> FALSE]
    /\ \A j \in 1..Len(loggers) : j # last'.inst => loggers'[j] = loggers[j]
    /\ \A j \in 1..Len(loggers) : loggers'[j].state.baseLevel = loggers[j].state.baseLevel

C16_ChildIsSeparate == []C16_OwnLogger /\ [][C16_Step]_vars

\* child() called without options while an override on the parent holds the
\* parent's effective level away from its base level: the child starts at
\* the base level, and the parent's override is still in place.
C16_Witness ==
    /\ last.op = "child" /\ last.arg = <<>>
    /\ Len(loggers) = 2
    /\ loggers[1].tokens # <<>>
    /\ loggers[1].state.level # loggers[1].state.baseLevel
    /\ loggers[2].state.level = loggers[1].state.baseLevel
    /\ loggers[2].tokens = <<>>

\* C17: on a logger created with sinks: null, error/warn/info/debug never
\* invoke a caller-supplied sink, a console method or the consoleFormatter,
\* whatever the effective level and whatever overrides are active (inside
\* withLevel('debug'), during a debug window).
C17_NoopInvokesNothing ==
    (cfg.opts.sinks.null /\ last.op \in Severities) =>
        /\ last.sink.kind \notin {"user", "console"}
        /\ last.formatter = "none"
        /\ ~last.forwarded

\* debug() passes its gate inside an override of a no-op logger that has a
\* consoleFormatter and whose base level lets nothing through.
C17_Witness ==
    /\ cfg.opts.sinks.null
    /\ cfg.opts.consoleFormatter
    /\ cfg.baseLevel = NONE
    /\ tokens # <<>>
    /\ last.op = "debug"
    /\ last.passed
    /\ last.sink = NULL_SINK

\* The no-op was chosen for this severity by the options themselves:
\* sinks: null, or a fallback of 'ignore' on the way of the call (warnFallback
\* 'debug' follows debug's own debugFallback).
ExplicitNoop(sev) ==
    LET o   == cfg.opts
        has == o.sinks.has
        dbg == "debug" \notin has /\ o.debugFallback = "ignore"
    IN  \/ o.sinks.null
        \/ sev = "debug" /\ dbg
        \/ /\ sev = "warn"
           /\ "warn" \notin has
           /\ \/ o.warnFallback = "ignore"
              \/ o.warnFallback = "debug" /\ dbg

\* The console method a call of this severity falls back to ("none": the call
\* goes to a sink of the caller or is ignored).
ConsoleMethod(sev) ==
    LET o   == cfg.opts
        has == o.sinks.has
        e   == IF "error" \in has THEN "none" ELSE "error"
        i   == IF "info" \in has THEN "none" ELSE "info"
        d   == IF "debug" \in has THEN "none"
               ELSE IF o.debugFallback \in {"undefined", "console"} THEN "debug"
               ELSE IF o.debugFallback = "info" THEN i
               ELSE "none"
        w   == IF "warn" \in has THEN "none"
               ELSE IF o.warnFallback \in {"undefined", "console"} THEN "warn"
               ELSE IF o.warnFallback = "error" THEN e
               ELSE IF o.warnFallback = "info" THEN i
               ELSE IF o.warnFallback = "debug" THEN d
               ELSE "none"
    IN  IF o.sinks.null THEN "none"
        ELSE IF sev = "error" THEN e
        ELSE IF sev = "info" THEN i
        ELSE IF sev = "debug" THEN d
        ELSE w

\* The runtime lacks the console method the call falls back to (for debug:
\* both console.debug and console.log).
AbsentConsole(sev) ==
    LET m == ConsoleMethod(sev)
    IN  /\ m # "none"
        /\ IF m = "debug" THEN cfg.console \cap {"debug", "log"} = {}
           ELSE m \notin cfg.console

\* The call went to its one resolved sink, once, or an exception of the mask,
\* the formatter or the sink reached the caller.
Delivered ==
    \/ last.forwarded /\ last.sink = cfg.sinks[last.op]
    \/ last.threw /\ last.by \in {"mask", "formatter", "sink"}

\* C18 as stated: an emitter call whose gate passes is forwarded to exactly one
\* resolved sink exactly once, or an exception of the mask, formatter or sink
\* escapes; it is silently dropped only when its sink is the no-op chosen by
\* explicit configuration (sinks: null, an 'ignore' fallback).
C18_DroppedOnlyByConfiguration ==
    (last.op \in Severities /\ last.passed) =>
        \/ Delivered
        \/ last.sink = cfg.sinks[last.op] /\ last.sink.kind = "null"
             /\ ExplicitNoop(last.op)

\* C18, amended: ... or when the call falls back to a console method that the
\* runtime does not have, for which createLogger puts the no-op in its place.
C18_DroppedOnlyByNoopSink ==
    (last.op \in Severities /\ last.passed) =>
        \/ Delivered
        \/ last.sink = cfg.sinks[last.op] /\ last.sink.kind = "null"
             /\ (ExplicitNoop(last.op) \/ AbsentConsole(last.op))

\* A passing call returns normally and reaches nothing although no option
\* asked for it: the runtime has no console.
C18_Witness ==
    /\ last.op \in Severities
    /\ last.passed
    /\ ~last.threw
    /\ ~last.forwarded
    /\ ~ExplicitNoop(last.op)
    /\ AbsentConsole(last.op)
    /\ cfg.opts.sinks.has = {}

\* Where a call ended: the kind of the function called and its name, whether
\* or not the consoleFormatter stood in front of it.
Dest(s) == [kind |-> s.kind, name |-> s.name]

\* C19: with a sinks option that is not null, warn() is delivered to sinks.warn
\* when supplied, otherwise as warnFallback says: 'console' (the default) to
\* console.warn, 'error' / 'info' / 'debug' to the sink resolved for that
\* severity, that severity's own fallback included (warnFallback 'debug' with
\* debugFallback 'info' delivers to the info sink), 'ignore' to nothing;
\* debug() is delivered to sinks.debug when supplied, otherwise as
\* debugFallback says: 'console' (the default), 'info' (the resolved info
\* sink) or 'ignore'.
C19_Routing ==
    (/\ ~cfg.opts.sinks.null
     /\ last.op \in {"warn", "debug"}
     /\ last.passed
     /\ last.sink # NoCall) =>
        LET o   == cfg.opts
            has == o.sinks.has
            wf  == o.warnFallback
            df  == o.debugFallback
            to  == last.sink
        IN  IF last.op = "warn"
            THEN IF "warn" \in has THEN to = UserSink("warn")
                 ELSE IF wf \in {"undefined", "console"}
                      THEN Dest(to) = Dest(ConsoleSink(cfg.console, "warn"))
                 ELSE IF wf = "error" THEN to = cfg.sinks.error
                 ELSE IF wf = "info" THEN to = cfg.sinks.info
                 ELSE IF wf = "debug"
                      THEN /\ to = cfg.sinks.debug
                           /\ ("debug" \notin has /\ df = "info") => to = cfg.sinks.info
                 ELSE to = NULL_SINK /\ ~last.forwarded
            ELSE IF "debug" \in has THEN to = UserSink("debug")
                 ELSE IF df \in {"undefined", "console"}
                      THEN Dest(to) = Dest(ConsoleDebug(cfg.console))
                 ELSE IF df = "info" THEN to = cfg.sinks.info
                 ELSE to = NULL_SINK /\ ~last.forwarded

\* warn() with warnFallback 'debug' and debugFallback 'info' arrives at the
\* info sink of the caller, not at the console.
C19_Witness ==
    /\ cfg.opts.sinks.has = {"info"}
    /\ cfg.opts.warnFallback = "debug"
    /\ cfg.opts.debugFallback = "info"
    /\ "debug" \in cfg.console
    /\ last.op = "warn"
    /\ last.forwarded
    /\ last.sink = UserSink("info")

\* C20: the consoleFormatter is invoked for a call only when the call is
\* routed to the console fallback; a call delivered to a sink of the caller
\* never invokes the formatter, and that sink is handed the unformatted
\* message and payload.
C20_FormatterOnlyOnConsole ==
    (last.op \in Severities) =>
        /\ last.formatter # "none" =>
              /\ cfg.opts.consoleFormatter
              /\ ConsoleMethod(last.op) # "none"
              /\ last.sink.kind # "user"
        /\ last.sink.kind = "user" =>
              /\ last.formatter = "none"
              /\ last.got.msg.fmt = "none"
              /\ last.got.data.fmt = "none"

\* A consoleFormatter is configured, the info sink is the caller's and is
\* handed the plain arguments, while warn() falls back to the console.
C20_Witness ==
    /\ cfg.opts.consoleFormatter
    /\ cfg.opts.sinks.has = {"info"}
    /\ cfg.sinks.warn = wrap("warn", ConsoleSink(cfg.console, "warn"))
    /\ "warn" \in cfg.console
    /\ last.op = "info"
    /\ last.forwarded
    /\ last.sink = UserSink("info")
    /\ last.got = Args(cfg.opts.mask, "none")

\* The steps of the level resolution, as conditions on the options.
DebugModeOn(o) ==
    o["env"].DEBUG_MODE # NoStr
    /\ LowerStr(TrimStr(o["env"].DEBUG_MODE)) \in {"1", "true", "yes", "on"}
LogLevelIsWarn(o) ==
    o["env"].LOG_LEVEL # NoStr
    /\ UpperStr(TrimStr(o["env"].LOG_LEVEL)) \in {"WARN", "WRN"}
InProduction(o) ==
    o["env"].NODE_ENV # NoStr
    /\ LowerStr(TrimStr(o["env"].NODE_ENV)) = "production"
Parses(v) == parseLogLevel(v) # UNDEFINED

\* C21: the base level is the first match of (1) the explicit level option,
\* parsed and clamped to 0..3; (2) DEBUG_MODE in {1, true, yes, on}: DEBUG;
\* (3) LOG_LEVEL parsed as a severity, WARN / WRN giving the configured
\* warnLevel; (4) NODE_ENV = production: prodDefault (default ERROR),
\* otherwise INFO; a value that does not parse falls through to the next step.
C21_LevelPrecedence ==
    (loggers # <<>> /\ "opts" \in DOMAIN cfg) =>
        LET o    == cfg.opts
            base == loggers[1].state.baseLevel
            wl   == loggers[1].warnLevel
            ll   == parseLogLevel(StrLevel(o["env"].LOG_LEVEL))
            s1   == Parses(o["level"])
            s2   == DebugModeOn(o)
            s3   == LogLevelIsWarn(o) \/ ll # UNDEFINED
        IN  /\ base \in 0..3
            /\ loggers[1].state.level = base
            /\ s1 => base = parseLogLevel(o["level"])
            /\ (~s1 /\ s2) => base = DEBUG
            /\ (~s1 /\ ~s2 /\ LogLevelIsWarn(o)) => base = wl
            /\ (~s1 /\ ~s2 /\ ~LogLevelIsWarn(o) /\ ll # UNDEFINED) => base = ll
            /\ (~s1 /\ ~s2 /\ ~s3 /\ InProduction(o)) =>
                  base = (IF Parses(o["prodDefault"])
                          THEN parseLogLevel(o["prodDefault"]) ELSE ERROR)
            /\ (~s1 /\ ~s2 /\ ~s3 /\ ~InProduction(o)) => base = INFO

\* LOG_LEVEL=warn with warnLevel INFO resolves to INFO in production, the
\* explicit level ('warn') and DEBUG_MODE ('0') having fallen through.
C21_Witness ==
    /\ loggers # <<>>
    /\ "opts" \in DOMAIN cfg
    /\ cfg.opts["level"] = [kind |-> "string", num |-> 0, str |-> "warn"]
    /\ cfg.opts["env"] = [DEBUG_MODE |-> "0", LOG_LEVEL |-> "warn",
                          NODE_ENV |-> "production"]
    /\ loggers[1].warnLevel = INFO
    /\ loggers[1].state.baseLevel = INFO
    /\ last.op = "level"
    /\ last.arg = "info"

\* { ...T1, ..., ...Tn }: later layers win.
RECURSIVE LaterWins(_)
LaterWins(layers) ==
    IF layers = <<>> THEN <<>>
    ELSE Spread(LaterWins(SubSeq(layers, 1, Len(layers) - 1)), layers[Len(layers)])

\* { ...Tn, ..., ...T1 }: earlier layers win.
RECURSIVE EarlierWins(_)
EarlierWins(layers) ==
    IF layers = <<>> THEN <<>>
    ELSE Spread(EarlierWins(Tail(layers)), Head(layers))

\* An emitter call made on an ILogger that has tag layers behind it.
TaggedCall ==
    /\ last.op \in Severities
    /\ "layers" \in DOMAIN cfg
    /\ cfg.layers[last.via] # <<>>

\* C22: for tag layers T1 (first applied, the `tags` option included) ... Tn
\* and plain-object data D the payload merged before the transform is
\* {...T1, ..., ...Tn, ...D} under dataWins and {...D, ...Tn, ..., ...T1}
\* under tagsWin; when data is undefined the payload is exactly the merged tag
\* set, and a non-plain data value is placed under the key `data` instead of
\* being spread.
C22_TagMerge ==
    TaggedCall =>
        LET T  == cfg.layers[last.via]
            dw == DataWins(loggers[last.inst].opts)
            d  == last.arg.data
            D  == IF d.kind = "plain" THEN d.obj ELSE [data |-> d.val]
            m  == last.arg.merged
        IN  /\ m.kind = "plain"
            /\ m.obj = IF d.kind = "undefined"
                       THEN (IF dw THEN LaterWins(T) ELSE EarlierWins(T))
                       ELSE IF dw THEN Spread(LaterWins(T), D)
                       ELSE Spread(D, EarlierWins(T))

\* Two layers, the `tags` option {svc: a} and withTags({svc: b, req: r}),
\* under tagsWin with data {req: q, n: 1}: the first layer wins over the
\* second and both win over the data.
C22_Witness ==
    /\ TaggedCall
    /\ cfg.layers[last.via] = <<[svc |-> "a"], [svc |-> "b", req |-> "r"]>>
    /\ ~DataWins(loggers[last.inst].opts)
    /\ last.arg.data = Plain([req |-> "q", n |-> "1"])
    /\ last.arg.merged = Plain([svc |-> "a", req |-> "r", n |-> "1"])

\* C23: child(options) called on a tag-wrapped logger constructs a new logger
\* whose static tags are the wrapper's accumulated tags merged with
\* options.tags by the merge policy (dataWins: the child's tags win on a key
\* collision; tagsWin: the wrapper's tags win), every other option being the
\* shallow merge of the child's options over the parent's.
C23_ChildOfWrapper ==
    (/\ last.op = "child"
     /\ "layers" \in DOMAIN cfg
     /\ cfg.layers[last.via] # <<>>) =>
        LET parent == loggers[Target(last.via)]
            made   == loggers[last.inst]
            co     == last.arg
            dw     == DataWins(parent.opts)
            extra  == IF "tags" \in DOMAIN co THEN co["tags"] ELSE NoTags
            W      == IF dw THEN LaterWins(cfg.layers[last.via])
                      ELSE EarlierWins(cfg.layers[last.via])
        IN  /\ last.inst # Target(last.via)
            /\ made.opts["tags"] = IF dw THEN Spread(W, extra) ELSE Spread(extra, W)
            /\ \A k \in (DOMAIN parent.opts) \ {"tags"} :
                  made.opts[k] = IF k \in DOMAIN co THEN co[k] ELSE parent.opts[k]
            /\ DOMAIN made.opts = DOMAIN parent.opts

\* child({tags: {req: c}}) on a wrapper with {svc: b, req: r} under tagsWin:
\* the wrapper's req wins, and the child is a second logger.
C23_Witness ==
    /\ last.op = "child"
    /\ "layers" \in DOMAIN cfg
    /\ cfg.layers[last.via] = <<[svc |-> "b", req |-> "r"]>>
    /\ last.arg = [tags |-> [req |-> "c"]]
    /\ ~DataWins(loggers[1].opts)
    /\ Len(loggers) = 2
    /\ loggers[2].opts["tags"] = [svc |-> "b", req |-> "r"]

\* C28: the logger handed to fn by withLevel stamps the same tags as the
\* logger on which withLevel was called: on a logger created with the `tags`
\* option or obtained from withTags, every call made inside fn on the
\* callback's logger argument delivers a payload that contains those tags.
C28_FnLoggerKeepsTags ==
    (/\ last.op \in Severities
     /\ "layers" \in DOMAIN cfg
     /\ last.id # 0
     /\ frames # <<>>
     /\ last.forwarded # {}) =>
        LET called == frames[Len(frames)].via
            T      == apis[called].tags
        IN  apis[called].kind = "sibling" =>
               /\ last.arg.merged.kind = "plain"
               /\ \A k \in DOMAIN T : k \in DOMAIN last.arg.merged.obj

\* Every override has ended: each withLevel fn has completed and each timed
\* override and debug window has been disposed or has expired.
AllEnded ==
    \A id \in Ids :
        /\ overrides[id].disposed
        /\ overrides[id].kind = "scoped" => overrides[id].fn = "done"

\* C27: whenever every override has ended, the token stack is empty, the
\* effective level equals the base level and all three debug flags are
\* false, the runtime state being the one right after construction; the base
\* level itself is never changed by any operation.
C27_Quiescence ==
    /\ state.baseLevel = cfg.baseLevel
    /\ AllEnded =>
          /\ tokens = <<>>
          /\ state = [baseLevel |-> cfg.baseLevel, level |-> cfg.baseLevel,
                      inDebug |-> FALSE, inDebugAllowInfo |-> FALSE,
                      inDebugIncludeStack |-> FALSE]

\* A withLevel to another level and a debug window have both ended, the
\* window last and by its timer.
C27_Witness ==
    /\ Len(overrides) = 2
    /\ AllEnded
    /\ overrides[1].kind = "scoped"
    /\ overrides[2].kind = "window"
    /\ last.op = "timer"
    /\ ~last.wasDisposed
    /\ tokens = <<>>
    /\ state.level = cfg.baseLevel

\* The override was pushed by withLevel / withLevelTimed with a level that is
\* defined and does not parse, and it has not ended.
UnparsedActive(id) ==
    /\ overrides[id].kind \in {"scoped", "timed"}
    /\ cfg.args[id].kind # "undefined"
    /\ parseLogLevel(cfg.args[id]) = UNDEFINED
    /\ ~overrides[id].disposed

\* error() is suppressed, info() and debug() get through only by a debug window.
GatedOutAtNone ==
    /\ last.op = "error" => ~last.forwarded
    /\ (last.op \in {"info", "debug"} /\ last.forwarded) => state.inDebug

\* No level token pushed after the token of `id` is on the stack.
NoLaterLevel(id) ==
    \A i \in 1..Len(tokens) :
        i > FindIndex(tokens, id) => tokens[i].level = UNDEFINED

\* C29 as stated: a defined level that does not parse pushes a level token
\* with level NONE, and for the duration of that override the effective level
\* is NONE: error() is suppressed, info() and debug() are suppressed unless a
\* debug window lets them through.
C29_UnparsedLevelIsNone ==
    "args" \in DOMAIN cfg =>
        \A id \in Ids :
            UnparsedActive(id) =>
                /\ OnStack(id)
                /\ tokens[FindIndex(tokens, id)] = LevelToken(id, NONE)
                /\ state.level = NONE
                /\ GatedOutAtNone

\* C29, amended: ... the effective level is NONE for as long as no level
\* override pushed later is active.
C29_UnparsedLevelIsNoneUnlessShadowed ==
    "args" \in DOMAIN cfg =>
        \A id \in Ids :
            UnparsedActive(id) =>
                /\ OnStack(id)
                /\ tokens[FindIndex(tokens, id)] = LevelToken(id, NONE)
                /\ NoLaterLevel(id) => (state.level = NONE /\ GatedOutAtNone)

\* Inside withLevel('warn', fn) on a logger whose base level is DEBUG, with a
\* debug window opened after it: error() is called and does not get through.
C29_Witness ==
    /\ "args" \in DOMAIN cfg
    /\ cfg.baseLevel = DEBUG
    /\ Len(overrides) = 2
    /\ UnparsedActive(1)
    /\ cfg.args[1] = [kind |-> "string", num |-> 0, str |-> "warn"]
    /\ overrides[2].kind = "window"
    /\ ~overrides[2].disposed
    /\ state.level = NONE
    /\ last.op = "error"
    /\ ~last.forwarded

\* The gate of each emitter in the current override state.
GateNow(sev) ==
    CASE sev = "error" -> ErrorGate(state)
      [] sev = "warn"  -> WarnGate(state, cfg.warnLevel)
      [] sev = "info"  -> InfoGate(state)
      [] sev = "debug" -> DebugGate(state)

\* What a call did behind its gate: everything but the tag merge of the
\* wrapper, which runs before the emitter of the api is entered.
BehindGate(steps) ==
    {steps[i] : i \in 1..Len(steps)} \ {"tags"}

\* C30: a call of error, warn, info or debug never changes the token stack,
\* the effective level or the debug flags, whether its gate lets it through
\* or not; and a call whose gate fails runs neither the error normalization,
\* nor the mask, nor truncation, nor the formatter, nor a sink, builds no
\* payload and throws nothing.
C30_GatedOutHasNoEffect ==
    [][last'.op \in Severities =>
         /\ UNCHANGED <<state, tokens, overrides, frames, cfg>>
         /\ last'.passed = GateNow(last'.op)
         /\ ~GateNow(last'.op) =>
               /\ BehindGate(last'.steps) = {}
               /\ last'.sink = NoCall
               /\ last'.payload = NoVal
               /\ last'.maskIn = NoVal
               /\ last'.truncIn = NoVal
               /\ ~last'.forwarded
               /\ ~last'.threw]_vars

\* error() on a logger with a mask, gated out by a timed level that is still
\* active, and info() gated out at the base level of a logger with a mask.
C30_Witness ==
    /\ last.op = "error"
    /\ ~last.passed
    /\ cfg.opts.mask
    /\ cfg.baseLevel >= ERROR
    /\ tokens # <<>>

\* The configured stack policy evaluates to true: 'always', or 'auto' (the
\* default) with a NODE_ENV that is not production.
StackPolicyTrue(o) ==
    \/ o.errorStackPolicy = "always"
    \/ /\ o.errorStackPolicy \in {"undefined", "auto"}
       /\ LowerStr(o.env.NODE_ENV) # "production"

\* A debug window is active and the most recently pushed window token has
\* includeStack = true.
WindowForcesStack == WindowIdx # {} /\ LastWindow.includeStack

\* error() was just called with an error-like input that has a string stack
\* and went through its gate.
ErrorWithStackLogged ==
    /\ last.op = "error"
    /\ last.passed
    /\ isErrorLike(last.input)
    /\ last.input.stack

\* The second argument of the call has a key of its own named k.
DataHasKey(k) == isPlainObject(last.arg) /\ k \in DOMAIN last.arg.obj

\* C25 as stated: for an error-like input with a string stack the payload of
\* error() has the key `stack` exactly when the stack policy evaluates to
\* true or the most recent active debug window has includeStack.
C25_StackIffPolicyOrWindow ==
    ErrorWithStackLogged =>
        ("stack" \in DOMAIN last.payload.obj
            <=> (StackPolicyTrue(cfg.opts) \/ WindowForcesStack))

\* C25, amended: the same, for calls whose data has no key `stack` of its
\* own; the stack in the payload is then the error's.  A `stack` key in the
\* data is in the payload whatever the policy and the windows say, with the
\* caller's value.
C25_StackIffPolicyOrWindowUnlessInData ==
    ErrorWithStackLogged =>
        /\ ~DataHasKey("stack") =>
              /\ "stack" \in DOMAIN last.payload.obj
                    <=> (StackPolicyTrue(cfg.opts) \/ WindowForcesStack)
              /\ "stack" \in DOMAIN last.payload.obj => last.payload.obj["stack"] = "err"
        /\ DataHasKey("stack") =>
              /\ "stack" \in DOMAIN last.payload.obj
              /\ last.payload.obj["stack"] = "data"

\* Under the policy 'never' a window with includeStack is pushed after one
\* without, and the payload of error() has the error's stack; the same call
\* after the windows have ended, with no stack.
C25_Witness ==
    /\ ErrorWithStackLogged
    /\ ~DataHasKey("stack")
    /\ cfg.opts.errorStackPolicy = "never"
    /\ Len(tokens) = 2
    /\ ~tokens[1].debugWindow.includeStack
    /\ WindowForcesStack
    /\ last.payload.obj["stack"] = "err"

\* The key the raw input goes under: the inputKey option, 'input' by default.
InputKeyOf(o) == IF o.inputKey = "undefined" THEN "input" ELSE o.inputKey

\* The errorInputPolicy in force: the option, 'ifNonError' by default.
InputPolicyOf(o) ==
    IF o.errorInputPolicy = "undefined" THEN "ifNonError" ELSE o.errorInputPolicy

\* error() went through its gate, and neither the data of the call nor the
\* custom fields of the error use the input key.
ErrorLoggedKeyFree ==
    /\ last.op = "error"
    /\ last.passed
    /\ ~DataHasKey(InputKeyOf(cfg.opts))
    /\ InputKeyOf(cfg.opts) \notin last.input.fields

\* The payload carries the raw input under the input key.
CarriesInput ==
    /\ InputKeyOf(cfg.opts) \in DOMAIN last.payload.obj
    /\ last.payload.obj[InputKeyOf(cfg.opts)] = "input"

\* C26: the payload of error() carries the raw input under inputKey exactly
\* when the input is not error-like and the policy is 'ifNonError' or
\* 'always', or the input is error-like and the policy is 'always'; under
\* 'never' the key is absent for every input.
C26_InputAttachment ==
    ErrorLoggedKeyFree =>
        /\ CarriesInput <=>
              \/ /\ ~isErrorLike(last.input)
                 /\ InputPolicyOf(cfg.opts) \in {"ifNonError", "always"}
              \/ /\ isErrorLike(last.input)
                 /\ InputPolicyOf(cfg.opts) = "always"
        /\ InputPolicyOf(cfg.opts) = "never"
              => InputKeyOf(cfg.opts) \notin DOMAIN last.payload.obj

\* An error-like input logged under 'always' through a tagged logger with
\* inputKey 'raw', with data of the caller next to it in the payload.
C26_Witness ==
    /\ ErrorLoggedKeyFree
    /\ isErrorLike(last.input)
    /\ cfg.opts.errorInputPolicy = "always"
    /\ cfg.opts.inputKey = "raw"
    /\ ~EmptyTags(cfg.opts.tags)
    /\ DataHasKey("n")
    /\ CarriesInput
    /\ last.forwarded

\* The place of a step in the steps of the last call, 0 when it did not run.
Pos(s) ==
    IF \E i \in 1..Len(last.steps) : last.steps[i] = s
    THEN CHOOSE i \in 1..Len(last.steps) : last.steps[i] = s
    ELSE 0

\* Of the steps named in `order`, those that ran did so in that order.
RanInOrder(order) ==
    \A i, j \in 1..Len(order) :
        (i < j /\ Pos(order[i]) > 0 /\ Pos(order[j]) > 0)
            => Pos(order[i]) < Pos(order[j])

\* A call that reached a sink of the caller or a console method.
ForwardedCall == last.op \in Severities /\ last.forwarded

\* What each step of a forwarded call worked on: the label, when configured,
\* is on the message the sink gets; the tags are in the payload; the mask,
\* when configured, is given that payload, never a truncated one; truncation
\* with a positive maximum is given the output of the mask when there is one
\* and clones it if it is an object; the sink gets the outcome.
PipelineDataflow ==
    LET o      == cfg.opts
        masked == IF o.mask THEN Masked(last.payload) ELSE last.payload
    IN  /\ Pos("sink") > 0
        /\ (Pos("label") > 0) = o.levelTags
        /\ (Pos("tags") > 0) = ~EmptyTags(o.tags)
        /\ (Pos("mask") > 0) = o.mask
        /\ last.got.msg.label = (IF o.levelTags THEN last.op ELSE "none")
        /\ ~EmptyTags(o.tags) =>
              /\ isPlainObject(last.payload)
              /\ DOMAIN o.tags \subseteq DOMAIN last.payload.obj
        /\ o.mask => last.maskIn = last.payload
        /\ last.maskIn.kind # "truncated"
        /\ o.truncate > 0 =>
              /\ last.truncIn = masked
              /\ last.got.data = (IF IsObject(masked) THEN Truncated(masked) ELSE masked)
        /\ o.truncate <= 0 => last.got.data = masked

\* C24 as stated: in every forwarded call the label, the tag merge, the
\* mask, the truncation and the sink call run in this order, each on the
\* outcome of the one before.
C24_LabelTagsMaskTruncateSink ==
    ForwardedCall =>
        /\ RanInOrder(<<"label", "tags", "mask", "truncate", "sink">>)
        /\ PipelineDataflow

\* C24, amended: in every forwarded call the tag merge runs first (in the
\* wrapper of a tagged logger, before the emitter is entered), then the
\* label, the mask, the truncation and the sink call, each on the outcome of
\* the one before; the mask never sees truncated values and truncation never
\* sees unmasked ones.
C24_TagsLabelMaskTruncateSink ==
    ForwardedCall =>
        /\ RanInOrder(<<"tags", "label", "mask", "truncate", "sink">>)
        /\ PipelineDataflow

\* A call through a tagged logger with labels, a mask and truncate = 5 that
\* hands its user sink the labelled message and the truncated masked payload.
C24_Witness ==
    /\ ForwardedCall
    /\ last.steps = <<"tags", "label", "mask", "truncate", "sink">>
    /\ cfg.opts.truncate > 0
    /\ last.arg.kind = "plain"
    /\ last.got.data = Truncated(Masked(last.payload))
    /\ ~last.threw

\* The scheduling of the host: a timer that is due fires once the call stack is
\* empty, and a synchronously running fn comes to an end.  warnLevel and the
\* base level, which no timer reads, are left at their defaults.
FairInit == Init /\ cfg.warnLevel = ERROR /\ cfg.baseLevel = INFO

FairSpec ==
    /\ FairInit /\ [][Next]_vars
    /\ \A id \in 1..MaxOverrides : WF_vars(id \in Ids /\ TimerFire(id))
    /\ WF_vars(FnReturn \/ FnThrow \/ FnAwait)

====
